---- MODULE Spec2Model ----
(***************************************************************************)
(* A model of codeindex-mcp's indexing engine: the file-path index, the    *)
(* content index, the debouncer, the watcher with its apply step and the   *)
(* periodic reconciler.  Strings are sequences of byte values so that      *)
(* sorting, binary search and backslash normalisation are computed as the  *)
(* Go code computes them.                                                  *)
(***************************************************************************)
EXTENDS Integers, Sequences, FiniteSets, TLC

VARIABLES
    fi,     \* index.FileIndex: [files, sortedPaths]
    ci,     \* index.ContentIndex: [fileContents, index, closed]
    deb,    \* watcher.Debouncer, its timer and its started flush callbacks
    gh,     \* history of the debouncer: adds not yet drained, counters
    disk,   \* the project tree: [dirs, files]
    matcher,\* ignore.Matcher: [gitIgnore, claudeIgnore]
    watcher,\* watcher.Watcher: [watched, events]
    apply,  \* handleWatcherEvents: [batch], the events of the batch in hand
    jobs,   \* files that passed the filters and wait for indexSingleFile
    pc,     \* the goroutines of main: where each one is, and its channels
    last    \* history: the last operation performed and what it observed

vars == <<fi, ci, deb, gh, disk, matcher, watcher, apply, jobs, pc, last>>

(***************************************************************************)
(* Bounds of the model                                                     *)
(***************************************************************************)
NPaths == 3
MaxSize == 2
MaxTime == 2
MaxFileSizeBytes == 2    \* the size limit of the matcher, in bytes
MaxAdds == 3        \* adds per run of SpecDeb
MaxAddsFull == 18   \* adds per run of SpecDebFull
MaxDiskOps == 3     \* changes of the tree per run of SpecWatch
Interval == 2       \* the debounce interval, in clock ticks

(***************************************************************************)
(* Byte values of the characters the code treats specially, and of the     *)
(* letters the modelled paths are made of.                                 *)
(***************************************************************************)
Slash == 47
Backslash == 92
ChA == 97
ChB == 98

PathList ==
    << <<ChB>>,
       <<ChA, Slash, ChB>>,
       <<ChA>>,
       <<ChA, Backslash, ChB>>,
       <<ChA, ChB>>,
       <<ChB, Slash, ChA>>,
       <<ChB, ChB>> >>

Paths == {PathList[i] : i \in 1..NPaths}

Min(a, b) == IF a < b THEN a ELSE b

(***************************************************************************)
(* Go string comparison: byte-wise lexicographic, a proper prefix first.   *)
(***************************************************************************)
RECURSIVE StrLess(_, _)
StrLess(s, t) ==
    IF t = <<>> THEN FALSE
    ELSE IF s = <<>> THEN TRUE
    ELSE IF Head(s) # Head(t) THEN Head(s) < Head(t)
    ELSE StrLess(Tail(s), Tail(t))

\* strings.ReplaceAll(s, "\\", "/")
RECURSIVE ReplaceBackslash(_)
ReplaceBackslash(s) ==
    IF s = <<>> THEN <<>>
    ELSE <<IF Head(s) = Backslash THEN Slash ELSE Head(s)>>
             \o ReplaceBackslash(Tail(s))

\* Insert x into the sorted sequence s, after its equals.
RECURSIVE InsertSorted(_, _)
InsertSorted(s, x) ==
    IF s = <<>> THEN <<x>>
    ELSE IF StrLess(x, Head(s)) THEN <<x>> \o s
    ELSE <<Head(s)>> \o InsertSorted(Tail(s), x)

\* sort.Strings: the sorted permutation of s.
RECURSIVE SortStrings(_)
SortStrings(s) ==
    IF s = <<>> THEN <<>>
    ELSE InsertSorted(SortStrings(Tail(s)), Head(s))

\* sort.SearchStrings: binary search for the smallest 0-based index i in
\* [lo, hi) with a[i] >= x, as sort.Search computes it.
RECURSIVE SearchFrom(_, _, _, _)
SearchFrom(a, x, lo, hi) ==
    IF lo >= hi THEN lo
    ELSE LET h == (lo + hi) \div 2
         IN  IF StrLess(a[h + 1], x)
             THEN SearchFrom(a, x, h + 1, hi)
             ELSE SearchFrom(a, x, lo, h)

SearchStrings(a, x) == SearchFrom(a, x, 0, Len(a))

\* append(s[:idx], s[idx+1:]...) for a 0-based idx.
RemoveAt(s, idx) == SubSeq(s, 1, idx) \o SubSeq(s, idx + 2, Len(s))

(***************************************************************************)
(* index.FileIndex                                                         *)
(***************************************************************************)
IndexedFile(rp, size, mod, lines) ==
    [RelativePath |-> rp, SizeBytes |-> size, ModTime |-> mod, LineCount |-> lines]

NewFileIndex == [files |-> <<>>, sortedPaths |-> <<>>]

MapPut(m, k, v) == [x \in DOMAIN m \cup {k} |-> IF x = k THEN v ELSE m[x]]
MapDelete(m, k) == [x \in DOMAIN m \ {k} |-> m[x]]

\* A slip AddFile could make: the new key is appended and the slice is not
\* sorted again.
AddFileUnsorted(f, file) ==
    [files |-> MapPut(f.files, file.RelativePath, file),
     sortedPaths |-> IF file.RelativePath \in DOMAIN f.files
                     THEN f.sortedPaths
                     ELSE Append(f.sortedPaths, file.RelativePath)]

AddFile(f, file) ==
    LET exists == file.RelativePath \in DOMAIN f.files
    IN  [files |-> MapPut(f.files, file.RelativePath, file),
         sortedPaths |-> IF exists
                         THEN f.sortedPaths
                         ELSE SortStrings(Append(f.sortedPaths, file.RelativePath))]

RemoveFile(f, relativePath) ==
    IF relativePath \notin DOMAIN f.files
    THEN f
    ELSE LET idx == SearchStrings(f.sortedPaths, relativePath)
         IN  [files |-> MapDelete(f.files, relativePath),
              sortedPaths |->
                  IF idx < Len(f.sortedPaths) /\ f.sortedPaths[idx + 1] = relativePath
                  THEN RemoveAt(f.sortedPaths, idx)
                  ELSE f.sortedPaths]

GetFile(f, relativePath) ==
    IF relativePath \in DOMAIN f.files THEN f.files[relativePath] ELSE "nil"

ClearFiles(f) == NewFileIndex

\* AllFiles: the indexed files in sortedPaths order.
AllFiles(f) ==
    LET present == SelectSeq(f.sortedPaths, LAMBDA p : p \in DOMAIN f.files)
    IN  [i \in 1..Len(present) |-> f.files[present[i]]]

(***************************************************************************)
(* index.ContentIndex: the bleve index (document id -> document) and the   *)
(* raw-content side map.  bleve's Index and Delete return an error for an  *)
(* empty id (ErrorEmptyID) and for an index that is no longer open         *)
(* (ErrorIndexClosed); any other failure inside bleve is the input         *)
(* internalErr.                                                            *)
(***************************************************************************)
Contents == {<<ChA>>, <<ChB>>}
Languages == {"Go", "Unknown"}

NewContentIndex == [fileContents |-> <<>>, index |-> <<>>, closed |-> FALSE]

bleveDocument(content, path, language) ==
    [Content |-> content, Path |-> path, Language |-> language]

\* bleve Index.Index / Index.Delete: whether the call returns an error.
BleveWriteFails(c, id, internalErr) == id = <<>> \/ c.closed \/ internalErr

\* IndexFile: the new state; IndexFileErr: whether it returns an error.
IndexFile(c, relativePath, content, language, internalErr) ==
    LET doc == bleveDocument(content, relativePath, language)
        stored == MapPut(c.fileContents, relativePath, content)
    IN  IF BleveWriteFails(c, relativePath, internalErr)
        THEN [c EXCEPT !.fileContents = stored]
        ELSE [c EXCEPT !.fileContents = stored,
                       !.index = MapPut(c.index, relativePath, doc)]

IndexFileErr(c, relativePath, internalErr) ==
    BleveWriteFails(c, relativePath, internalErr)

\* RemoveFile of the content index; the error of Delete is dropped.
RemoveContent(c, relativePath, internalErr) ==
    IF BleveWriteFails(c, relativePath, internalErr)
    THEN [c EXCEPT !.fileContents = MapDelete(c.fileContents, relativePath)]
    ELSE [c EXCEPT !.fileContents = MapDelete(c.fileContents, relativePath),
                   !.index = MapDelete(c.index, relativePath)]

\* DocCount of a closed index is an error, which DocumentCount drops.
DocumentCount(c) == IF c.closed THEN 0 ELSE Cardinality(DOMAIN c.index)

\* The document identifiers a reader (Search, DocumentCount) can see.
DocumentIDs(c) == IF c.closed THEN {} ELSE DOMAIN c.index

GetFileContent(c, relativePath) ==
    LET normalizedPath == ReplaceBackslash(relativePath)
    IN  IF normalizedPath \in DOMAIN c.fileContents
        THEN <<c.fileContents[normalizedPath], TRUE>>
        ELSE <<<<>>, FALSE>>

\* Clear: outcome "ok", or the error of closing the old index ("closeErr"),
\* or of creating the new one ("newErr").
ClearContent(c, outcome) ==
    CASE outcome = "closeErr" -> [c EXCEPT !.closed = TRUE]
      [] outcome = "newErr" -> [c EXCEPT !.closed = TRUE]
      [] OTHER -> NewContentIndex

(***************************************************************************)
(* The project tree on disk.  A path is relative to the root, with         *)
(* forward slashes; <<>> is the root itself.  disk.dirs holds the          *)
(* directories below the root, disk.files maps every regular file to its   *)
(* bytes and its modification time.                                        *)
(***************************************************************************)
Newline == 10
DotVs == <<46, 118, 115>>                                        \* ".vs"
DotGitignore == <<46, 103, 105, 116, 105, 103, 110, 111, 114, 101>>
DotClaudeignore ==
    <<46, 99, 108, 97, 117, 100, 101, 105, 103, 110, 111, 114, 101>>

\* filepath.Join of a directory and a name.
Join(dir, name) == IF dir = <<>> THEN name ELSE dir \o <<Slash>> \o name

\* strings.Split(s, sep) for a one-byte separator.
RECURSIVE Split(_, _)
Split(s, sep) ==
    IF \A i \in 1..Len(s) : s[i] # sep
    THEN <<s>>
    ELSE LET i == CHOOSE k \in 1..Len(s) :
                      s[k] = sep /\ \A j \in 1..k - 1 : s[j] # sep
         IN  <<SubSeq(s, 1, i - 1)>> \o Split(SubSeq(s, i + 1, Len(s)), sep)

\* filepath.Base and filepath.Dir of a relative path.
Base(path) == LET parts == Split(path, Slash) IN parts[Len(parts)]
Dir(path) == SubSeq(path, 1, Len(path) - Len(Base(path)) - 1)

EmptyDisk == [dirs |-> {}, files |-> <<>>]

\* os.FileInfo of a regular file: what Size() and ModTime() return.
FileInfo(d, path) ==
    [size |-> Len(d.files[path].content), mod |-> d.files[path].mod]

(***************************************************************************)
(* ignore.Matcher.  A loaded ignore file is the set of its pattern lines;  *)
(* nil (no such file) is the empty set, which matches nothing either.      *)
(* The modelled pattern lines are plain names, which gitignore matches     *)
(* against every component of a path, so a name excludes the entry of      *)
(* that name and everything below it.                                      *)
(***************************************************************************)
\* The entries of DefaultIgnorePatterns that a component of a modelled
\* path can equal; no modelled name matches one of its glob entries.
DefaultIgnorePatterns == {DotVs}

\* The entries of ShouldIgnoreDir's switch that a modelled name can equal.
FastSkipDirs == {DotVs}

\* No --exclude pattern is configured.
CustomPatterns == {}

SeqToSet(s) == {s[i] : i \in 1..Len(s)}

loadIgnoreFile(d, name) ==
    IF name \in DOMAIN d.files
    THEN SeqToSet(Split(d.files[name].content, Newline)) \ {<<>>}
    ELSE {}

NewMatcher(d) ==
    [gitIgnore |-> loadIgnoreFile(d, DotGitignore),
     claudeIgnore |-> loadIgnoreFile(d, DotClaudeignore)]

Reload(m, d) ==
    [gitIgnore |-> loadIgnoreFile(d, DotGitignore),
     claudeIgnore |-> loadIgnoreFile(d, DotClaudeignore)]

\* loadIgnoreFile for a file that os.Open may fail to open although it
\* exists (openFails), and Reload over such files.
loadIgnoreFileOpen(d, name, openFails) ==
    IF openFails THEN {} ELSE loadIgnoreFile(d, name)

\* A slip: a layer whose file cannot be opened keeps its old rules.
ReloadKeepOnError(m, d, unreadable) ==
    [gitIgnore |-> IF DotGitignore \in unreadable \/ DotGitignore \notin DOMAIN d.files
                   THEN m.gitIgnore ELSE loadIgnoreFile(d, DotGitignore),
     claudeIgnore |-> IF DotClaudeignore \in unreadable
                         \/ DotClaudeignore \notin DOMAIN d.files
                      THEN m.claudeIgnore ELSE loadIgnoreFile(d, DotClaudeignore)]

ReloadOpen(m, d, unreadable) ==
    [gitIgnore |-> loadIgnoreFileOpen(d, DotGitignore, DotGitignore \in unreadable),
     claudeIgnore |-> loadIgnoreFileOpen(d, DotClaudeignore,
                                         DotClaudeignore \in unreadable)]

matchesDefaultPatterns(relativePath) ==
    \E pattern \in DefaultIgnorePatterns :
        \/ Base(relativePath) = pattern
        \/ pattern \in SeqToSet(Split(relativePath, Slash))

matchesCustomPatterns(relativePath) ==
    \E pattern \in CustomPatterns :
        pattern = relativePath \/ pattern = Base(relativePath)

\* GitIgnore.Relative(path, isDir) reporting an ignore match.
IgnoreFileMatches(rules, relativePath) ==
    \E part \in SeqToSet(Split(relativePath, Slash)) : part \in rules

ShouldIgnore(m, relativePath) ==
    \/ matchesDefaultPatterns(relativePath)
    \/ IgnoreFileMatches(m.gitIgnore, relativePath)
    \/ IgnoreFileMatches(m.claudeIgnore, relativePath)
    \/ matchesCustomPatterns(relativePath)

ShouldIgnoreDir(m, relativePath) ==
    Base(relativePath) \in FastSkipDirs \/ ShouldIgnore(m, relativePath)

IsFileTooLarge(fileSize) == fileSize > MaxFileSizeBytes

(***************************************************************************)
(* language                                                                *)
(***************************************************************************)
BinaryCheckSize == 512

IsBinaryContent(data) ==
    LET checkSize == Min(BinaryCheckSize, Len(data))
    IN  \E i \in 1..checkSize : data[i] = 0

\* DetectLanguage: no modelled name has an extension or a base name of the
\* lookup table.
DetectLanguage(path) == "Unknown"

\* strings.Count(contentStr, "\n") + 1
LineCount(content) ==
    Cardinality({i \in 1..Len(content) : content[i] = Newline}) + 1

(***************************************************************************)
(* indexSingleFile.  readFails: both attempts of readFileWithRetry return  *)
(* an error.  The result is the two indexes and whether an error is        *)
(* returned.                                                               *)
(***************************************************************************)
indexSingleFile(d, f, c, relativePath, info, readFails) ==
    IF readFails \/ relativePath \notin DOMAIN d.files
    THEN [fi |-> f, ci |-> c, err |-> "reading file"]
    ELSE LET content == d.files[relativePath].content
             lang == DetectLanguage(relativePath)
             indexedFile == IndexedFile(relativePath, info.size, info.mod,
                                        LineCount(content))
         IN  IF IsBinaryContent(content)
             THEN [fi |-> f, ci |-> c, err |-> "binary file"]
             ELSE [fi |-> AddFile(f, indexedFile),
                   ci |-> IndexFile(c, relativePath, content, lang, FALSE),
                   err |-> IF IndexFileErr(c, relativePath, FALSE)
                           THEN "indexing content" ELSE "nil"]

(***************************************************************************)
(* performSyncVerification.  readErr: the paths whose read fails during    *)
(* the sweep.  The three loops range over Go maps; the paths of one loop   *)
(* are handled here in sorted order, and since each iteration touches      *)
(* only the entries of its own path, every other order ends in the same    *)
(* indexes and the same counts.  logged is the sequence of the sweep's     *)
(* Info log lines, each <<kind, path>>.                                    *)
(***************************************************************************)
NoSyncResult == [MissingFiles |-> 0, StaleFiles |-> 0, ModifiedFiles |-> 0]

\* Step 1: a directory other than the root is walked unless it or one of
\* its ancestors is pruned.
RECURSIVE DirWalked(_, _, _)
DirWalked(d, m, dir) ==
    \/ dir = <<>>
    \/ /\ dir \in d.dirs
       /\ ~ShouldIgnoreDir(m, dir)
       /\ DirWalked(d, m, Dir(dir))

\* Step 1: relative path -> FileInfo of every file surviving the filters.
diskFilesOf(d, m) ==
    [p \in {q \in DOMAIN d.files :
                /\ DirWalked(d, m, Dir(q))
                /\ ~ShouldIgnore(m, q)
                /\ ~IsFileTooLarge(FileInfo(d, q).size)} |-> FileInfo(d, p)]

\* Step 2: relative path -> indexed file, built from AllFiles().
indexedSetOf(f) ==
    LET all == AllFiles(f)
    IN  [p \in {all[i].RelativePath : i \in 1..Len(all)} |-> f.files[p]]

FirstPath(todo) == CHOOSE p \in todo : \A q \in todo : q = p \/ StrLess(p, q)

\* A slip: the missing file is indexed but not counted.
syncIndexMissingUncounted(d, st, relPath, info, readFails) ==
    LET r == indexSingleFile(d, st.fi, st.ci, relPath, info, readFails)
    IN  [st EXCEPT !.fi = r.fi, !.ci = r.ci]

\* Step 3, one iteration for a path that is on disk and not indexed.
syncIndexMissing(d, st, relPath, info, readFails) ==
    LET r == indexSingleFile(d, st.fi, st.ci, relPath, info, readFails)
    IN  IF r.err # "nil"
        THEN [st EXCEPT !.fi = r.fi, !.ci = r.ci]
        ELSE [st EXCEPT !.fi = r.fi, !.ci = r.ci,
                        !.result.MissingFiles = @ + 1,
                        !.logged = Append(@, <<"missing", relPath>>)]

\* A slip: the stale path leaves the file index only.
syncRemoveStaleKeepContent(st, relPath) ==
    [st EXCEPT !.fi = RemoveFile(st.fi, relPath),
               !.result.StaleFiles = @ + 1,
               !.logged = Append(@, <<"stale", relPath>>)]

\* Step 4, one iteration for a path that is indexed and not on disk.
syncRemoveStale(st, relPath) ==
    [st EXCEPT !.fi = RemoveFile(st.fi, relPath),
               !.ci = RemoveContent(st.ci, relPath, FALSE),
               !.result.StaleFiles = @ + 1,
               !.logged = Append(@, <<"stale", relPath>>)]

\* A slip: the modified path is counted but not read again.
syncReindexModifiedCountOnly(d, st, relPath, info, readFails) ==
    [st EXCEPT !.result.ModifiedFiles = @ + 1,
               !.logged = Append(@, <<"modified", relPath>>)]

\* Step 5, one iteration for an indexed path whose ModTime differs.
syncReindexModified(d, st, relPath, info, readFails) ==
    LET r == indexSingleFile(d, st.fi, st.ci, relPath, info, readFails)
    IN  IF r.err # "nil"
        THEN [st EXCEPT !.fi = r.fi, !.ci = r.ci]
        ELSE [st EXCEPT !.fi = r.fi, !.ci = r.ci,
                        !.result.ModifiedFiles = @ + 1,
                        !.logged = Append(@, <<"modified", relPath>>)]

RECURSIVE SyncMissing(_, _, _, _, _)
SyncMissing(d, diskFiles, st, todo, readErr) ==
    IF todo = {} THEN st
    ELSE LET p == FirstPath(todo)
         IN  SyncMissing(d, diskFiles,
                         syncIndexMissing(d, st, p, diskFiles[p], p \in readErr),
                         todo \ {p}, readErr)

RECURSIVE SyncStale(_, _)
SyncStale(st, todo) ==
    IF todo = {} THEN st
    ELSE LET p == FirstPath(todo)
         IN  SyncStale(syncRemoveStale(st, p), todo \ {p})

RECURSIVE SyncModified(_, _, _, _, _)
SyncModified(d, diskFiles, st, todo, readErr) ==
    IF todo = {} THEN st
    ELSE LET p == FirstPath(todo)
         IN  SyncModified(d, diskFiles,
                          syncReindexModified(d, st, p, diskFiles[p], p \in readErr),
                          todo \ {p}, readErr)

\* The paths step 3 and step 5 hand to indexSingleFile.
SyncMissingPaths(diskFiles, indexedSet) ==
    DOMAIN diskFiles \ DOMAIN indexedSet

SyncStalePaths(diskFiles, indexedSet) ==
    DOMAIN indexedSet \ DOMAIN diskFiles

SyncModifiedPaths(diskFiles, indexedSet) ==
    {p \in DOMAIN diskFiles \cap DOMAIN indexedSet :
         diskFiles[p].mod # indexedSet[p].ModTime}

performSyncVerification(d, m, f, c, readErr) ==
    LET diskFiles == diskFilesOf(d, m)
        indexedSet == indexedSetOf(f)
        start == [fi |-> f, ci |-> c, result |-> NoSyncResult, logged |-> <<>>]
        step3 == SyncMissing(d, diskFiles, start,
                             SyncMissingPaths(diskFiles, indexedSet), readErr)
        step4 == SyncStale(step3, SyncStalePaths(diskFiles, indexedSet))
    IN  SyncModified(d, diskFiles, step4,
                     SyncModifiedPaths(diskFiles, indexedSet), readErr)

(***************************************************************************)
(* performIndexing and the reindex tool.  The workers of performIndexing   *)
(* call indexSingleFile for distinct paths, each call touching only the    *)
(* entries of its path, so the order in which the jobs are handled does    *)
(* not show in the result; they are handled here in sorted order.          *)
(* readErr: the paths whose read fails.                                    *)
(***************************************************************************)
RECURSIVE IndexJobs(_, _, _, _, _)
IndexJobs(d, diskFiles, st, todo, readErr) ==
    IF todo = {} THEN st
    ELSE LET p == FirstPath(todo)
             r == indexSingleFile(d, st.fi, st.ci, p, diskFiles[p], p \in readErr)
             next == IF r.err # "nil"
                     THEN [st EXCEPT !.fi = r.fi, !.ci = r.ci]
                     ELSE [st EXCEPT !.fi = r.fi, !.ci = r.ci,
                                     !.indexedCount = @ + 1,
                                     !.totalSize = @ + diskFiles[p].size]
         IN  IndexJobs(d, diskFiles, next, todo \ {p}, readErr)

performIndexing(d, m, f, c, readErr) ==
    LET diskFiles == diskFilesOf(d, m)
    IN  IndexJobs(d, diskFiles,
                  [fi |-> f, ci |-> c, indexedCount |-> 0, totalSize |-> 0],
                  DOMAIN diskFiles, readErr)

\* A slip: the scan runs with the rules loaded before.
DoReindexNoReload(d, m, f, c, clearOutcome, readErr) ==
    LET r == performIndexing(d, m, ClearFiles(f), ClearContent(c, clearOutcome),
                             readErr)
    IN  [fi |-> r.fi, ci |-> r.ci, matcher |-> m, count |-> r.indexedCount,
         size |-> r.totalSize, err |-> "nil"]

\* DoReindex: clear both indexes, reload the rules, scan.
DoReindex(d, m, f, c, clearOutcome, readErr) ==
    IF clearOutcome # "ok"
    THEN [fi |-> ClearFiles(f), ci |-> ClearContent(c, clearOutcome),
          matcher |-> m, count |-> 0, size |-> 0,
          err |-> "clearing content index"]
    ELSE LET m1 == Reload(m, d)
             r == performIndexing(d, m1, ClearFiles(f),
                                  ClearContent(c, clearOutcome), readErr)
         IN  [fi |-> r.fi, ci |-> r.ci, matcher |-> m1,
              count |-> r.indexedCount, size |-> r.totalSize, err |-> "nil"]

(***************************************************************************)
(* watcher.Debouncer.  time.AfterFunc starts flush in a goroutine of its   *)
(* own when the timer expires; timer.Stop on an expired timer does not     *)
(* take that goroutine back.  deb.timer is the timer d.timer points to     *)
(* (rem: ticks left to its expiry), deb.callbacks the number of flush      *)
(* goroutines that expired timers started and that have not yet taken      *)
(* d.mu.  flush keeps d.mu while it is blocked sending to a full output    *)
(* channel: deb.mu = "flush", with the batch in deb.held.                  *)
(***************************************************************************)
OpCreate == "OpCreate"
OpWrite == "OpWrite"
OpRemove == "OpRemove"
OpRename == "OpRename"
EventOps == {OpCreate, OpWrite, OpRemove, OpRename}

OutputCap == 16

DebouncedEvent(path, op) == [Path |-> path, Op |-> op]

NewDebouncer ==
    [events |-> <<>>, timer |-> [st |-> "nil", rem |-> 0], callbacks |-> 0,
     mu |-> "free", held |-> <<>>, output |-> <<>>]

\* pend: per path, the first and the last op added since the map was last
\* drained, and whether there was more than one add; sent: the
\* drained batches the consumer has not received yet; windows / got: per
\* path, how often it became pending / how many of its events were received.
NoHistory ==
    [pend |-> <<>>, adds |-> 0, sent |-> <<>>, windows |-> <<>>, got |-> <<>>]

Count(m, k) == IF k \in DOMAIN m THEN m[k] ELSE 0

\* The orders in which ranging over the map m can visit its keys.
RangeOrders(m) ==
    {o \in [1..Cardinality(DOMAIN m) -> DOMAIN m] :
        \A i, j \in DOMAIN o : i # j => o[i] # o[j]}

BatchPaths(batch) == {batch[i].Path : i \in 1..Len(batch)}

\* A slip Add could make: an entry the map already holds is kept.
AddKeepFirst(d, path, op) ==
    [d EXCEPT !.events = IF path \in DOMAIN d.events
                         THEN d.events
                         ELSE MapPut(d.events, path, DebouncedEvent(path, op)),
              !.timer = [st |-> "armed", rem |-> Interval]]

\* Debouncer.Add: store the event, stop the old timer, start a new one.
Add(d, path, op) ==
    [d EXCEPT !.events = MapPut(d.events, path, DebouncedEvent(path, op)),
              !.timer = [st |-> "armed", rem |-> Interval]]

\* A slip flush could make: a batch that finds the channel full is dropped.
flushDropWhenFull(d, order) ==
    IF d.events = <<>>
    THEN d
    ELSE LET batch == [i \in 1..Len(order) |-> d.events[order[i]]]
         IN  IF Len(d.output) < OutputCap
             THEN [d EXCEPT !.events = <<>>, !.output = Append(d.output, batch)]
             ELSE [d EXCEPT !.events = <<>>]

\* A slip flush could make: the pending map is not reset.
flushKeepEvents(d, order) ==
    IF d.events = <<>>
    THEN d
    ELSE LET batch == [i \in 1..Len(order) |-> d.events[order[i]]]
         IN  IF Len(d.output) < OutputCap
             THEN [d EXCEPT !.output = Append(d.output, batch)]
             ELSE [d EXCEPT !.mu = "flush", !.held = batch]

\* Debouncer.flush, entered with d.mu taken, ranging over d.events in order.
flush(d, order) ==
    IF d.events = <<>>
    THEN d
    ELSE LET batch == [i \in 1..Len(order) |-> d.events[order[i]]]
         IN  IF Len(d.output) < OutputCap
             THEN [d EXCEPT !.events = <<>>, !.output = Append(d.output, batch)]
             ELSE [d EXCEPT !.events = <<>>, !.mu = "flush", !.held = batch]

(***************************************************************************)
(* watcher.Watcher.  watcher.watched is the set of directories fsnotify    *)
(* holds a watch on (<<>> is the root), watcher.events the fsnotify events *)
(* not yet taken by Start's loop.  A native event is [Name, Op], Op being  *)
(* the set of bits of fsnotify.Op.                                         *)
(***************************************************************************)
FsCreate == "Create"
FsWrite == "Write"
FsRemove == "Remove"
FsRename == "Rename"
FsChmod == "Chmod"

FsEvent(name, op) == [Name |-> name, Op |-> {op}]

\* NewWatcher: every directory the walk reaches and does not prune.
NewWatcher(d, m) ==
    [watched |-> {<<>>} \cup {dir \in d.dirs : DirWalked(d, m, dir)},
     events |-> <<>>]

\* A slip handleEvent could make: the switch tries Write before Create.
handleEventWriteFirst(w, db, d, m, event) ==
    LET path == event.Name
    IN  IF FsCreate \in event.Op /\ path \in d.dirs
        THEN [watcher |-> IF ShouldIgnoreDir(m, path) THEN w
                          ELSE [w EXCEPT !.watched = @ \cup {path}],
              deb |-> db]
        ELSE IF ShouldIgnore(m, path)
        THEN [watcher |-> w, deb |-> db]
        ELSE IF FsWrite \in event.Op
        THEN [watcher |-> w, deb |-> Add(db, path, OpWrite)]
        ELSE IF FsCreate \in event.Op
        THEN [watcher |-> w, deb |-> Add(db, path, OpCreate)]
        ELSE IF FsRemove \in event.Op
        THEN [watcher |-> w, deb |-> Add(db, path, OpRemove)]
        ELSE IF FsRename \in event.Op
        THEN [watcher |-> w, deb |-> Add(db, path, OpRename)]
        ELSE [watcher |-> w, deb |-> db]

\* handleEvent: the watcher and the debouncer after one native event.
handleEvent(w, db, d, m, event) ==
    LET path == event.Name
    IN  IF FsCreate \in event.Op /\ path \in d.dirs
        THEN [watcher |-> IF ShouldIgnoreDir(m, path) THEN w
                          ELSE [w EXCEPT !.watched = @ \cup {path}],
              deb |-> db]
        ELSE IF ShouldIgnore(m, path)
        THEN [watcher |-> w, deb |-> db]
        ELSE IF FsCreate \in event.Op
        THEN [watcher |-> w, deb |-> Add(db, path, OpCreate)]
        ELSE IF FsWrite \in event.Op
        THEN [watcher |-> w, deb |-> Add(db, path, OpWrite)]
        ELSE IF FsRemove \in event.Op
        THEN [watcher |-> w, deb |-> Add(db, path, OpRemove)]
        ELSE IF FsRename \in event.Op
        THEN [watcher |-> w, deb |-> Add(db, path, OpRename)]
        ELSE [watcher |-> w, deb |-> db]

\* A slip handleWatcherEvents could make: the ignore check is made before
\* the switch, so a removal of an ignored path is skipped.
applyEventIgnoreCheckFirst(d, m, f, c, event) ==
    LET relPath == event.Path
        same == [fi |-> f, ci |-> c, matcher |-> m]
    IN  IF ShouldIgnore(m, relPath) THEN same
        ELSE IF event.Op \in {OpRemove, OpRename}
        THEN [fi |-> RemoveFile(f, relPath),
              ci |-> RemoveContent(c, relPath, FALSE),
              matcher |-> m]
        ELSE IF Base(relPath) \in {DotGitignore, DotClaudeignore}
        THEN [same EXCEPT !.matcher = Reload(m, d)]
        ELSE IF relPath \notin DOMAIN d.files THEN same
        ELSE IF IsFileTooLarge(FileInfo(d, relPath).size) THEN same
        ELSE LET r == indexSingleFile(d, f, c, relPath, FileInfo(d, relPath), FALSE)
             IN  [fi |-> r.fi, ci |-> r.ci, matcher |-> m]

(***************************************************************************)
(* handleWatcherEvents: the body of its inner loop for one debounced       *)
(* event, giving the two indexes and the matcher after it.                 *)
(***************************************************************************)
applyEvent(d, m, f, c, event) ==
    LET relPath == event.Path
        same == [fi |-> f, ci |-> c, matcher |-> m]
    IN  IF event.Op \in {OpRemove, OpRename}
        THEN [fi |-> RemoveFile(f, relPath),
              ci |-> RemoveContent(c, relPath, FALSE),
              matcher |-> m]
        ELSE IF Base(relPath) \in {DotGitignore, DotClaudeignore}
        THEN [same EXCEPT !.matcher = Reload(m, d)]
        ELSE IF ShouldIgnore(m, relPath) THEN same
        ELSE IF relPath \notin DOMAIN d.files THEN same   \* Stat fails, or a directory
        ELSE IF IsFileTooLarge(FileInfo(d, relPath).size) THEN same
        ELSE LET r == indexSingleFile(d, f, c, relPath, FileInfo(d, relPath), FALSE)
             IN  [fi |-> r.fi, ci |-> r.ci, matcher |-> m]

IdleIndexes ==
    /\ fi = NewFileIndex
    /\ ci = NewContentIndex

\* No goroutine besides the caller of the operations.
IdleGoroutines == pc = <<>>

IdleDebouncer ==
    /\ deb = NewDebouncer
    /\ gh = NoHistory

\* An empty project root and the matcher built over it.
IdleTree ==
    /\ disk = EmptyDisk
    /\ matcher = NewMatcher(EmptyDisk)
    /\ watcher = NewWatcher(EmptyDisk, NewMatcher(EmptyDisk))
    /\ apply = [batch |-> <<>>]
    /\ jobs = {}

\* The watcher loop calls Add(path, op); at most maxAdds calls per run.
DebAdd(path, op, maxAdds) ==
    /\ deb.mu = "free"
    /\ gh.adds < maxAdds
    /\ deb' = Add(deb, path, op)
    /\ gh' = [gh EXCEPT !.adds = @ + 1,
                        !.pend = MapPut(@, path,
                                     IF path \in DOMAIN @
                                     THEN [first |-> @[path].first, lastOp |-> op,
                                           many |-> TRUE]
                                     ELSE [first |-> op, lastOp |-> op,
                                           many |-> FALSE]),
                        !.windows = IF path \in DOMAIN deb.events THEN @
                                    ELSE MapPut(@, path, Count(@, path) + 1)]
    /\ last' = [op |-> "Add", path |-> path,
                short |-> deb.timer.st = "armed" /\ deb.timer.rem > 0,
                prev |-> IF last.op = "none" THEN <<>> ELSE last.path,
                batch |-> <<>>, pend |-> <<>>]
    /\ UNCHANGED <<pc, jobs, watcher, apply, disk, matcher, fi, ci>>

\* One clock tick passes on the running timer.
DebTick ==
    /\ deb.timer.st = "armed"
    /\ deb.timer.rem > 0
    /\ deb' = [deb EXCEPT !.timer.rem = @ - 1]
    /\ UNCHANGED <<pc, jobs, watcher, apply, disk, matcher, fi, ci, gh, last>>

\* The timer expires: the runtime starts flush in its own goroutine.
DebTimerFire ==
    /\ deb.timer.st = "armed"
    /\ deb.timer.rem = 0
    /\ deb' = [deb EXCEPT !.timer.st = "fired", !.callbacks = @ + 1]
    /\ UNCHANGED <<pc, jobs, watcher, apply, disk, matcher, fi, ci, gh, last>>

\* A started flush goroutine takes d.mu and runs.
DebFlush ==
    /\ deb.callbacks > 0
    /\ deb.mu = "free"
    /\ \E order \in RangeOrders(deb.events) :
        LET d == [deb EXCEPT !.callbacks = @ - 1]
        IN  /\ deb' = flush(d, order)
            /\ gh' = IF deb.events = <<>> THEN gh
                     ELSE [gh EXCEPT !.pend = <<>>,
                             !.sent = Append(@, [i \in 1..Len(order) |->
                                                    deb.events[order[i]]])]
            /\ last' = [op |-> "flush", path |-> last.path, short |-> FALSE,
                        prev |-> last.prev,
                        batch |-> IF deb.events = <<>> THEN <<>>
                                  ELSE [i \in 1..Len(order) |-> deb.events[order[i]]],
                        pend |-> gh.pend]
    /\ UNCHANGED <<pc, jobs, watcher, apply, disk, matcher, fi, ci>>

\* The blocked send of flush completes once the channel has room.
DebFlushSend ==
    /\ deb.mu = "flush"
    /\ Len(deb.output) < OutputCap
    /\ deb' = [deb EXCEPT !.output = Append(@, deb.held), !.held = <<>>,
                          !.mu = "free"]
    /\ UNCHANGED <<pc, jobs, watcher, apply, disk, matcher, fi, ci, gh, last>>

\* The consumer receives one batch from Output().
DebReceive ==
    /\ deb.output # <<>>
    /\ deb' = [deb EXCEPT !.output = Tail(@)]
    /\ gh' = [gh EXCEPT !.sent = Tail(@),
                        !.got = [p \in DOMAIN @ \cup BatchPaths(Head(deb.output)) |->
                                    Count(@, p) +
                                    Cardinality({i \in 1..Len(Head(deb.output)) :
                                                    Head(deb.output)[i].Path = p})]]
    /\ last' = [op |-> "Receive", path |-> last.path, short |-> FALSE,
                prev |-> last.prev, batch |-> Head(deb.output), pend |-> <<>>]
    /\ UNCHANGED <<pc, jobs, watcher, apply, disk, matcher, fi, ci>>

(***************************************************************************)
(* SpecDeb: two paths and two ops, a few adds; the output channel never    *)
(* fills, so flush never blocks.                                           *)
(***************************************************************************)
DebPaths == {<<ChA>>, <<ChB>>}
DebOps == {OpCreate, OpWrite}

InitDeb ==
    /\ IdleIndexes
    /\ IdleDebouncer
    /\ IdleGoroutines
    /\ IdleTree
    /\ last = [op |-> "none", path |-> <<>>, short |-> FALSE, prev |-> <<>>,
               batch |-> <<>>, pend |-> <<>>]

DebAddAny == \E p \in DebPaths, op \in DebOps : DebAdd(p, op, MaxAdds)

NextDeb == DebAddAny \/ DebTick \/ DebTimerFire \/ DebFlush \/ DebReceive

SpecDeb == InitDeb /\ [][NextDeb]_vars

\* The scheduling the Go runtime gives: time passes, an expired timer
\* starts its callback, a runnable goroutine runs, the consumer receives.
DebFairness ==
    /\ WF_vars(DebTick)
    /\ WF_vars(DebTimerFire)
    /\ WF_vars(DebFlush)
    /\ WF_vars(DebReceive)

SpecDebFair == SpecDeb /\ DebFairness

EventsFor(batch, p) == {i \in 1..Len(batch) : batch[i].Path = p}

\* Every batch the debouncer has built and not yet handed to the consumer.
BatchesInFlight ==
    [i \in 1..Len(deb.output) |-> deb.output[i]]
        \o (IF deb.mu = "flush" THEN <<deb.held>> ELSE <<>>)

C6_OneEventPerBurst ==
    \A p \in DebPaths :
        Count(gh.windows, p) =
            Count(gh.got, p)
            + (IF p \in DOMAIN deb.events THEN 1 ELSE 0)
            + Cardinality({k \in 1..Len(BatchesInFlight) :
                              EventsFor(BatchesInFlight[k], p) # {}})

\* The batch a flush builds carries, for each pending path, the last op
\* recorded for it, and nothing for a path that is not pending.
C6_BatchCarriesLastOp ==
    last.op = "flush" =>
        \A p \in DebPaths :
            IF p \in DOMAIN last.pend
            THEN \E i \in 1..Len(last.batch) :
                     /\ last.batch[i].Path = p
                     /\ last.batch[i].Op = last.pend[p].lastOp
            ELSE EventsFor(last.batch, p) = {}

C8_ShortGapSameBatch ==
    (last.op = "Add" /\ last.short /\ last.prev # last.path)
        => last.prev \in DOMAIN deb.events

(***************************************************************************)
(* SpecDebFull: one path, enough adds to fill the output channel while the *)
(* consumer is slow.  The op alternates from one drained batch to the      *)
(* next, so that neighbouring batches in the channel differ.               *)
(***************************************************************************)
DebAddNext ==
    LET drained == Count(gh.windows, <<ChA>>)
                       - (IF <<ChA>> \in DOMAIN deb.events THEN 1 ELSE 0)
    IN  DebAdd(<<ChA>>, IF drained % 2 = 0 THEN OpCreate ELSE OpWrite, MaxAddsFull)

NextDebFull ==
    DebAddNext \/ DebTick \/ DebTimerFire \/ DebFlush \/ DebFlushSend \/ DebReceive

SpecDebFull == InitDeb /\ [][NextDebFull]_vars

DebFullFairness ==
    /\ WF_vars(DebTick)
    /\ WF_vars(DebTimerFire)
    /\ WF_vars(DebFlush)
    /\ WF_vars(DebFlushSend)
    /\ WF_vars(DebReceive)

SpecDebFullFair == SpecDebFull /\ DebFullFairness

\* The batches built and not yet received are, in order, those in the
\* channel followed by the one a blocked flush holds; the channel never
\* holds more than its capacity.
C7_NoBatchLostOrReordered ==
    /\ BatchesInFlight = gh.sent
    /\ Len(deb.output) <= OutputCap

\* C7: no drained batch is lost or reordered; with the output buffer full
\* the flush blocks until the consumer receives, and every pending event is
\* eventually delivered while the consumer keeps receiving.
C7_BlockingOutputDeliversAll ==
    /\ []C7_NoBatchLostOrReordered
    /\ (deb.events # <<>>) ~>
           (last.op = "Receive" /\ <<ChA>> \in BatchPaths(last.batch))
    /\ (deb.mu = "flush") ~> (deb.mu = "free")

\* A flush is blocked on the full channel, holding the mutex and its batch,
\* behind batches that differ from it.
C7_WitnessBlockedFlush ==
    /\ deb.mu = "flush"
    /\ Len(deb.output) = OutputCap
    /\ deb.held # deb.output[OutputCap]

(***************************************************************************)
(* SpecFI: the file-path index under arbitrary AddFile / RemoveFile /      *)
(* Clear calls.                                                            *)
(***************************************************************************)
InitFI ==
    /\ IdleIndexes
    /\ IdleDebouncer
    /\ IdleGoroutines
    /\ IdleTree
    /\ last = [op |-> "none"]

FIAdd ==
    \E p \in Paths, size \in 1..MaxSize, mod \in 1..MaxTime :
        /\ fi' = AddFile(fi, IndexedFile(p, size, mod, 1))
        /\ last' = [op |-> "AddFile", path |-> p, existed |-> p \in DOMAIN fi.files]
        /\ UNCHANGED <<pc, jobs, watcher, apply, disk, matcher, ci, deb, gh>>

FIRemove ==
    \E p \in Paths :
        /\ fi' = RemoveFile(fi, p)
        /\ last' = [op |-> "RemoveFile", path |-> p, existed |-> p \in DOMAIN fi.files]
        /\ UNCHANGED <<pc, jobs, watcher, apply, disk, matcher, ci, deb, gh>>

FIClear ==
    /\ fi' = ClearFiles(fi)
    /\ last' = [op |-> "Clear", path |-> <<>>, existed |-> fi.files # <<>>]
    /\ UNCHANGED <<pc, jobs, watcher, apply, disk, matcher, ci, deb, gh>>

NextFI == FIAdd \/ FIRemove \/ FIClear

SpecFI == InitFI /\ [][NextFI]_vars

\* C2: after any sequence of add, remove and clear calls the ordered path
\* sequence is lexicographically sorted, holds every key of the mapping
\* exactly once and holds no path that is not a key.
C2_SortedPathsMatchFiles ==
    /\ \A i \in 1..Len(fi.sortedPaths) - 1 :
           StrLess(fi.sortedPaths[i], fi.sortedPaths[i + 1])
    /\ SeqToSet(fi.sortedPaths) = DOMAIN fi.files
    /\ Len(fi.sortedPaths) = Cardinality(DOMAIN fi.files)

\* An existing key was re-added while the index held every modelled path.
C2_WitnessReAdd ==
    /\ last.op = "AddFile"
    /\ last.existed
    /\ Len(fi.sortedPaths) = NPaths

(***************************************************************************)
(* SpecCI: the content index under arbitrary IndexFile / RemoveFile /      *)
(* Clear calls.  Each call holds ci.mu for its whole body, so a call is    *)
(* one step.  last.kept maps each key to the content of its latest         *)
(* IndexFile that no RemoveFile of the key and no Clear has followed.      *)
(***************************************************************************)
CIKeys == {<<>>, <<ChA, Slash, ChB>>, <<ChA, Backslash, ChB>>}

InitCI ==
    /\ IdleIndexes
    /\ IdleDebouncer
    /\ IdleGoroutines
    /\ IdleTree
    /\ last = [op |-> "none", path |-> <<>>, err |-> FALSE, kept |-> <<>>]

CIIndexFile ==
    \E p \in CIKeys, c \in Contents, l \in Languages, internalErr \in BOOLEAN :
        /\ ci' = IndexFile(ci, p, c, l, internalErr)
        /\ last' = [op |-> "IndexFile", path |-> p,
                    err |-> IndexFileErr(ci, p, internalErr),
                    kept |-> MapPut(last.kept, p, c)]
        /\ UNCHANGED <<pc, jobs, watcher, apply, disk, matcher, fi, deb, gh>>

CIRemoveFile ==
    \E p \in CIKeys, internalErr \in BOOLEAN :
        /\ ci' = RemoveContent(ci, p, internalErr)
        /\ last' = [op |-> "RemoveFile", path |-> p,
                    err |-> BleveWriteFails(ci, p, internalErr),
                    kept |-> MapDelete(last.kept, p)]
        /\ UNCHANGED <<pc, jobs, watcher, apply, disk, matcher, fi, deb, gh>>

CIClear ==
    \E outcome \in {"ok", "closeErr", "newErr"} :
        /\ ci' = ClearContent(ci, outcome)
        /\ last' = [op |-> "Clear", path |-> <<>>, err |-> outcome # "ok",
                    kept |-> <<>>]
        /\ UNCHANGED <<pc, jobs, watcher, apply, disk, matcher, fi, deb, gh>>

NextCI == CIIndexFile \/ CIRemoveFile \/ CIClear

SpecCI == InitCI /\ [][NextCI]_vars

\* C3: in every state reachable through index_file, remove_file and clear,
\* whether or not the inverted-structure operation of a call fails, the keys
\* of the raw-content mapping are the document identifiers a reader sees.
C3_ContentKeysEqualDocumentIDs ==
    DOMAIN ci.fileContents = DocumentIDs(ci)

\* C4: for every key p, also one holding a backslash, get_file_content(p)
\* returns (c, true) for the content c of the latest index_file(p, c, l)
\* that no remove_file(p) and no clear has followed.
C4_GetFileContentReturnsIndexed ==
    \A p \in DOMAIN last.kept :
        GetFileContent(ci, p) = <<last.kept[p], TRUE>>

(***************************************************************************)
(* SpecSync: the reconciler alone.  The tree changes between sweeps, the   *)
(* ignore rules are reloaded at any time, and every sweep runs             *)
(* performSyncVerification from start to end with no disk change and no    *)
(* other index writer during it.  The content index stays open and every   *)
(* document id is a non-empty path, so bleve accepts every write.          *)
(***************************************************************************)
FileA == <<ChA>>
PrunedFile == Join(DotVs, <<ChA>>)
SyncFiles == {FileA, DotGitignore, PrunedFile}

BinaryContent == <<0>>
LargeContent == [i \in 1..MaxFileSizeBytes + 1 |-> ChA]

\* What a path of the modelled tree is written with.
SyncContents(p) ==
    IF p = FileA THEN {<<ChA>>, <<ChB>>, BinaryContent, LargeContent}
    ELSE IF p = DotGitignore THEN {<<ChA>>, <<ChB>>}
    ELSE {<<ChA>>}

SyncModTimes(p) == IF p = PrunedFile THEN {1} ELSE 1..MaxTime

InitSync ==
    /\ IdleIndexes
    /\ IdleDebouncer
    /\ IdleGoroutines
    /\ disk = [dirs |-> {DotVs}, files |-> <<>>]
    /\ matcher = NewMatcher(EmptyDisk)
    /\ watcher = NewWatcher(EmptyDisk, NewMatcher(EmptyDisk))
    /\ apply = [batch |-> <<>>]
    /\ jobs = {}
    /\ last = [op |-> "none"]

\* A file is created or written.
SyncDiskWrite ==
    \E p \in SyncFiles :
        \E content \in SyncContents(p), mod \in SyncModTimes(p) :
            /\ disk' = [disk EXCEPT !.files =
                            MapPut(@, p, [content |-> content, mod |-> mod])]
            /\ last' = [op |-> "disk"]
            /\ UNCHANGED <<pc, jobs, watcher, apply, fi, ci, deb, gh, matcher>>

\* A file is deleted.
SyncDiskRemove ==
    \E p \in DOMAIN disk.files :
        /\ disk' = [disk EXCEPT !.files = MapDelete(@, p)]
        /\ last' = [op |-> "disk"]
        /\ UNCHANGED <<pc, jobs, watcher, apply, fi, ci, deb, gh, matcher>>

\* Matcher.Reload
SyncReload ==
    /\ matcher' = Reload(matcher, disk)
    /\ last' = [op |-> "reload"]
    /\ UNCHANGED <<pc, jobs, watcher, apply, fi, ci, deb, gh, disk>>

\* One tick of runPeriodicSync.
SyncSweep ==
    LET diskFiles == diskFilesOf(disk, matcher)
        indexedSet == indexedSetOf(fi)
    IN  \E readErr \in SUBSET (SyncMissingPaths(diskFiles, indexedSet)
                                 \cup SyncModifiedPaths(diskFiles, indexedSet)) :
            LET end == performSyncVerification(disk, matcher, fi, ci, readErr)
            IN  /\ fi' = end.fi
                /\ ci' = end.ci
                /\ last' = [op |-> "sync", indexed |-> DOMAIN indexedSet,
                            before |-> [files |-> indexedSet,
                                        contents |-> ci.fileContents],
                            readErr |-> readErr, result |-> end.result,
                            logged |-> end.logged]
                /\ UNCHANGED <<pc, jobs, watcher, apply, deb, gh, disk, matcher>>

NextSync == SyncDiskWrite \/ SyncDiskRemove \/ SyncReload \/ SyncSweep

SpecSync == InitSync /\ [][NextSync]_vars

\* How many log lines of the last sweep are <<kind, path>>.
Logged(kind, path) ==
    Cardinality({i \in 1..Len(last.logged) : last.logged[i] = <<kind, path>>})

LoggedKind(kind) ==
    Cardinality({i \in 1..Len(last.logged) : last.logged[i][1] = kind})

\* The counts of a sweep are the numbers of its log lines.
CountsMatchLog ==
    /\ last.result.MissingFiles = LoggedKind("missing")
    /\ last.result.StaleFiles = LoggedKind("stale")
    /\ last.result.ModifiedFiles = LoggedKind("modified")

CountedMissingAndIndexed(p) ==
    /\ Logged("missing", p) = 1
    /\ Logged("stale", p) = 0
    /\ Logged("modified", p) = 0
    /\ p \in DOMAIN fi.files
    /\ p \in DOMAIN ci.fileContents
    /\ p \in DocumentIDs(ci)

\* The files the last sweep found on disk, past the filter chain, and not
\* in the file index.  The sweep changes neither the tree nor the matcher.
MissingAtStart ==
    DOMAIN diskFilesOf(disk, matcher) \ last.indexed

\* C9 as stated: every file on disk that survives the filter chain and is
\* absent from the file index when a sweep starts is counted once as
\* missing, not as stale or modified, and is in both indexes afterwards.
C9_SurvivorCountedMissing ==
    last.op = "sync" =>
        /\ CountsMatchLog
        /\ \A p \in MissingAtStart : CountedMissingAndIndexed(p)

\* C9, amended: the same for every such file that the sweep can read and
\* whose content is not binary; a file that is binary or cannot be read
\* is not counted and not put into the file index.
C9_ReadableTextCountedMissing ==
    last.op = "sync" =>
        /\ CountsMatchLog
        /\ \A p \in MissingAtStart :
               IF p \notin last.readErr /\ ~IsBinaryContent(disk.files[p].content)
               THEN CountedMissingAndIndexed(p)
               ELSE Logged("missing", p) = 0 /\ p \notin DOMAIN fi.files

\* A sweep found two missing files and indexed both.
C9_WitnessTwoMissing ==
    /\ last.op = "sync"
    /\ last.result.MissingFiles = 2
    /\ MissingAtStart = {FileA, DotGitignore}
    /\ last.readErr = {}

\* C10: every path in the file index and not in the disk snapshot of a
\* sweep is counted once as stale, not as missing or modified, and is in
\* neither index afterwards.
C10_StaleCountedAndRemoved ==
    last.op = "sync" =>
        /\ CountsMatchLog
        /\ \A p \in last.indexed \ DOMAIN diskFilesOf(disk, matcher) :
               /\ Logged("stale", p) = 1
               /\ Logged("missing", p) = 0
               /\ Logged("modified", p) = 0
               /\ p \notin DOMAIN fi.files
               /\ p \notin DOMAIN ci.fileContents
               /\ p \notin DocumentIDs(ci)

\* A sweep removed a deleted file and a file that the reloaded rules
\* exclude while it is still on disk.
C10_WitnessDeletedAndExcluded ==
    /\ last.op = "sync"
    /\ last.result.StaleFiles = 2
    /\ last.indexed = {FileA, DotGitignore}
    /\ FileA \in DOMAIN disk.files
    /\ DotGitignore \notin DOMAIN disk.files

\* The paths the last sweep found both in its disk snapshot and in the file
\* index, with a modification time on disk that differs from the indexed
\* one / that equals it.
ModifiedAtStart ==
    {p \in DOMAIN diskFilesOf(disk, matcher) \cap last.indexed :
         disk.files[p].mod # last.before.files[p].ModTime}

UnmodifiedAtStart ==
    {p \in DOMAIN diskFilesOf(disk, matcher) \cap last.indexed :
         disk.files[p].mod = last.before.files[p].ModTime}

CountedModifiedAndCurrent(p) ==
    /\ Logged("modified", p) = 1
    /\ Logged("missing", p) = 0
    /\ Logged("stale", p) = 0
    /\ GetFileContent(ci, p) = <<disk.files[p].content, TRUE>>
    /\ p \in DOMAIN fi.files
    /\ fi.files[p].ModTime = disk.files[p].mod

\* The sweep left the entries of p as they were and logged nothing for it.
Untouched(p) ==
    /\ \A kind \in {"missing", "stale", "modified"} : Logged(kind, p) = 0
    /\ p \in DOMAIN fi.files /\ fi.files[p] = last.before.files[p]
    /\ p \in DOMAIN ci.fileContents
    /\ ci.fileContents[p] = last.before.contents[p]

\* C11 as stated: every path on disk and in the file index whose
\* modification time on disk differs from the indexed one is counted once
\* as modified, not as missing or stale, and afterwards get_file_content
\* returns its content on disk and the indexed mod_time is the one on
\* disk; paths with equal timestamps are not touched.
C11_ModifiedCountedAndCurrent ==
    last.op = "sync" =>
        /\ CountsMatchLog
        /\ \A p \in ModifiedAtStart : CountedModifiedAndCurrent(p)
        /\ \A p \in UnmodifiedAtStart : Untouched(p)

\* C11, amended: the same for every such path that the sweep can read and
\* whose content on disk is not binary; a path that is binary or cannot be
\* read is not counted as modified.
C11_ReadableTextReindexed ==
    last.op = "sync" =>
        /\ CountsMatchLog
        /\ \A p \in ModifiedAtStart :
               IF p \notin last.readErr /\ ~IsBinaryContent(disk.files[p].content)
               THEN CountedModifiedAndCurrent(p)
               ELSE Logged("modified", p) = 0
        /\ \A p \in UnmodifiedAtStart : Untouched(p)

\* A sweep re-indexed one file with a new timestamp and new content and
\* left alone another whose content changed under an unchanged timestamp.
C11_WitnessOneModifiedOneEqual ==
    /\ last.op = "sync"
    /\ last.result.ModifiedFiles = 1
    /\ ModifiedAtStart = {FileA}
    /\ last.before.contents[FileA] # disk.files[FileA].content
    /\ UnmodifiedAtStart = {DotGitignore}
    /\ last.before.contents[DotGitignore] # disk.files[DotGitignore].content

(***************************************************************************)
(* SpecWatch: the watcher, the debouncer and the apply step over a tree    *)
(* that is empty at startup, with the reconciler disabled.  The tree       *)
(* changes by at most MaxDiskOps operations; a file written by the n-th    *)
(* operation gets modification time n.  fsnotify reports a change of an    *)
(* entry when it holds a watch on the entry's directory at that moment.    *)
(* Each step of the watcher loop and of the apply loop handles one event.  *)
(* last.touched holds the files on disk whose latest create or write       *)
(* happened while neither the loaded rules nor the rules on disk excluded  *)
(* them.                                                                   *)
(***************************************************************************)
DirD == <<100>>                                                  \* "d"
FileDA == Join(DirD, <<ChA>>)
WatchFiles == {FileA, DotGitignore, FileDA}
WatchDirs == {DirD}

WatchContents(p) == IF p = FileDA THEN {<<ChA>>} ELSE {<<ChA>>, <<ChB>>}

InitWatch ==
    /\ IdleIndexes
    /\ IdleDebouncer
    /\ IdleGoroutines
    /\ IdleTree
    /\ last = [op |-> "watch", ops |-> 0, touched |-> {}]

\* The events fsnotify queues for a change of path.
Notify(path, op) ==
    IF Dir(path) \in watcher.watched
    THEN Append(watcher.events, FsEvent(path, op))
    ELSE watcher.events

Excluded(m, d, path) ==
    ShouldIgnore(m, path) \/ ShouldIgnore(NewMatcher(d), path)

\* os.WriteFile: a file is created, or an existing file is rewritten.
WatchWriteFile ==
    \E p \in WatchFiles : \E content \in WatchContents(p) :
        /\ last.ops < MaxDiskOps
        /\ Dir(p) = <<>> \/ Dir(p) \in disk.dirs
        /\ disk' = [disk EXCEPT !.files =
                        MapPut(@, p, [content |-> content, mod |-> last.ops + 1])]
        /\ watcher' = [watcher EXCEPT !.events =
                           Notify(p, IF p \in DOMAIN disk.files
                                     THEN FsWrite ELSE FsCreate)]
        /\ last' = [last EXCEPT !.ops = @ + 1,
                                !.touched = IF Excluded(matcher, disk', p)
                                            THEN @ \ {p} ELSE @ \cup {p}]
        /\ UNCHANGED <<pc, jobs, fi, ci, deb, gh, matcher, apply>>

\* os.Remove of a file.
WatchRemoveFile ==
    \E p \in DOMAIN disk.files :
        /\ last.ops < MaxDiskOps
        /\ disk' = [disk EXCEPT !.files = MapDelete(@, p)]
        /\ watcher' = [watcher EXCEPT !.events = Notify(p, FsRemove)]
        /\ last' = [last EXCEPT !.ops = @ + 1, !.touched = @ \ {p}]
        /\ UNCHANGED <<pc, jobs, fi, ci, deb, gh, matcher, apply>>

\* os.Mkdir
WatchMkdir ==
    \E dir \in WatchDirs \ disk.dirs :
        /\ last.ops < MaxDiskOps
        /\ disk' = [disk EXCEPT !.dirs = @ \cup {dir}]
        /\ watcher' = [watcher EXCEPT !.events = Notify(dir, FsCreate)]
        /\ last' = [last EXCEPT !.ops = @ + 1]
        /\ UNCHANGED <<pc, jobs, fi, ci, deb, gh, matcher, apply>>

\* Watcher.Start: one native event is received and handled.
WatcherHandleEvent ==
    /\ watcher.events # <<>>
    /\ deb.mu = "free"
    /\ LET r == handleEvent([watcher EXCEPT !.events = Tail(@)], deb, disk,
                            matcher, Head(watcher.events))
       IN  /\ watcher' = r.watcher
           /\ deb' = r.deb
    /\ UNCHANGED <<pc, jobs, fi, ci, gh, disk, matcher, apply, last>>

\* A started flush goroutine takes d.mu and runs.
WatchFlush ==
    /\ deb.callbacks > 0
    /\ deb.mu = "free"
    /\ \E order \in RangeOrders(deb.events) :
           deb' = flush([deb EXCEPT !.callbacks = @ - 1], order)
    /\ UNCHANGED <<pc, jobs, fi, ci, gh, disk, matcher, watcher, apply, last>>

\* handleWatcherEvents receives the next batch.
WatchReceive ==
    /\ apply.batch = <<>>
    /\ deb.output # <<>>
    /\ apply' = [batch |-> Head(deb.output)]
    /\ deb' = [deb EXCEPT !.output = Tail(@)]
    /\ UNCHANGED <<pc, jobs, fi, ci, gh, disk, matcher, watcher, last>>

\* handleWatcherEvents applies the next event of the batch in hand.
ApplyEvent ==
    /\ apply.batch # <<>>
    /\ LET r == applyEvent(disk, matcher, fi, ci, Head(apply.batch))
       IN  /\ fi' = r.fi
           /\ ci' = r.ci
           /\ matcher' = r.matcher
    /\ apply' = [batch |-> Tail(apply.batch)]
    /\ UNCHANGED <<pc, jobs, deb, gh, disk, watcher, last>>

NextWatch ==
    \/ WatchWriteFile \/ WatchRemoveFile \/ WatchMkdir
    \/ WatcherHandleEvent
    \/ DebTick \/ DebTimerFire \/ WatchFlush
    \/ WatchReceive \/ ApplyEvent

SpecWatch == InitWatch /\ [][NextWatch]_vars

\* Nothing is left to do: no native event, no pending debounced event, no
\* running timer, no started flush, no batch in the channel or in hand.
Quiescent ==
    /\ watcher.events = <<>>
    /\ deb.events = <<>>
    /\ deb.timer.st # "armed"
    /\ deb.callbacks = 0
    /\ deb.mu = "free"
    /\ deb.output = <<>>
    /\ apply.batch = <<>>

\* The file survives the filter chain: not excluded, within the size
\* limit, not binary.
Survives(p) ==
    /\ p \in DOMAIN disk.files
    /\ ~Excluded(matcher, disk, p)
    /\ ~IsFileTooLarge(FileInfo(disk, p).size)
    /\ ~IsBinaryContent(disk.files[p].content)

\* Both indexes hold what is on disk for p.
InSync(p) ==
    /\ GetFileContent(ci, p) = <<disk.files[p].content, TRUE>>
    /\ p \in DOMAIN fi.files
    /\ fi.files[p].SizeBytes = FileInfo(disk, p).size
    /\ fi.files[p].ModTime = FileInfo(disk, p).mod

\* C1: with the watcher running and the reconciler disabled, once the
\* debounce interval has elapsed and the apply step has processed every
\* batch, each file that survives the filter chain and was created or
\* written is returned by get_file_content with its content on disk, and
\* the file index holds its current metadata.
C1_WatcherKeepsIndexCurrent ==
    Quiescent => \A p \in last.touched : Survives(p) => InSync(p)

(***************************************************************************)
(* SpecIngest: one ingestion at a time seen as its two steps, while the    *)
(* tree changes.  Each of the initial scan (performIndexing: the walk      *)
(* queues a job, a worker takes it later), the apply step and the          *)
(* reconciler first applies its filters to the os.FileInfo it obtained     *)
(* and then calls indexSingleFile, which reads the file as it is by then.  *)
(* A job is [relPath, info, by].                                           *)
(***************************************************************************)
IngestFiles == {FileA, PrunedFile}
Ingesters == {"scan", "apply", "sync"}
IngestContents == {<<ChA>>, BinaryContent, LargeContent}

InitIngest ==
    /\ IdleIndexes
    /\ IdleDebouncer
    /\ IdleGoroutines
    /\ disk = [dirs |-> {DotVs}, files |-> <<>>]
    /\ matcher = NewMatcher(EmptyDisk)
    /\ watcher = NewWatcher(EmptyDisk, NewMatcher(EmptyDisk))
    /\ apply = [batch |-> <<>>]
    /\ jobs = {}
    /\ last = [op |-> "ingest"]

\* The filters of the walk of performIndexing and of performSyncVerification
\* (by = "scan", "sync") and those of handleWatcherEvents (by = "apply").
PassesFilters(by, d, m, p) ==
    IF by = "apply"
    THEN /\ Base(p) \notin {DotGitignore, DotClaudeignore}
         /\ ~ShouldIgnore(m, p)
         /\ p \in DOMAIN d.files
         /\ ~IsFileTooLarge(FileInfo(d, p).size)
    ELSE p \in DOMAIN diskFilesOf(d, m)

IngestWrite ==
    \E p \in IngestFiles, content \in IngestContents, mod \in 1..MaxTime :
        /\ disk' = [disk EXCEPT !.files =
                        MapPut(@, p, [content |-> content, mod |-> mod])]
        /\ UNCHANGED <<pc, fi, ci, deb, gh, matcher, watcher, apply, jobs, last>>

IngestRemove ==
    \E p \in DOMAIN disk.files :
        /\ disk' = [disk EXCEPT !.files = MapDelete(@, p)]
        /\ UNCHANGED <<pc, fi, ci, deb, gh, matcher, watcher, apply, jobs, last>>

\* An ingester applies its filters to a file and keeps its FileInfo.
IngestCheck ==
    \E by \in Ingesters, p \in IngestFiles :
        /\ jobs = {}
        /\ PassesFilters(by, disk, matcher, p)
        /\ jobs' = {[relPath |-> p, info |-> FileInfo(disk, p), by |-> by]}
        /\ UNCHANGED <<pc, fi, ci, deb, gh, disk, matcher, watcher, apply, last>>

\* The ingester calls indexSingleFile with the FileInfo it kept.
IngestRead ==
    \E job \in jobs, readFails \in BOOLEAN :
        LET r == indexSingleFile(disk, fi, ci, job.relPath, job.info, readFails)
        IN  /\ fi' = r.fi
            /\ ci' = r.ci
            /\ jobs' = jobs \ {job}
            /\ UNCHANGED <<pc, deb, gh, disk, matcher, watcher, apply, last>>

NextIngest == IngestWrite \/ IngestRemove \/ IngestCheck \/ IngestRead

SpecIngest == InitIngest /\ [][NextIngest]_vars

\* The directories above a relative path, the root excluded.
RECURSIVE Ancestors(_)
Ancestors(path) ==
    IF Dir(path) = <<>> THEN {} ELSE {Dir(path)} \cup Ancestors(Dir(path))

UnderPrunedDir(m, path) == \E dir \in Ancestors(path) : ShouldIgnoreDir(m, dir)

\* C12: whoever ingested, and even if the file changed between the size
\* check and the read, the content index stores no binary content and no
\* content above the size limit, and neither index holds a path under a
\* directory that should_ignore_dir rejects.
C12_NoBinaryNoOversizeNoPruned ==
    /\ \A p \in DOMAIN ci.fileContents :
           /\ ~IsBinaryContent(ci.fileContents[p])
           /\ ~IsFileTooLarge(Len(ci.fileContents[p]))
    /\ \A p \in DOMAIN fi.files \cup DOMAIN ci.fileContents \cup DocumentIDs(ci) :
           ~UnderPrunedDir(matcher, p)

(***************************************************************************)
(* SpecReindex: the reindex tool over a tree that changes between the      *)
(* calls; a call runs from start to end with no disk change and no other   *)
(* index writer during it.                                                 *)
(***************************************************************************)
ClearOutcomes == {"ok", "closeErr", "newErr"}

Reindex ==
    \E clearOutcome \in ClearOutcomes :
        \E readErr \in SUBSET DOMAIN diskFilesOf(disk, Reload(matcher, disk)) :
            LET r == DoReindex(disk, matcher, fi, ci, clearOutcome, readErr)
            IN  /\ clearOutcome # "ok" => readErr = {}
                /\ fi' = r.fi
                /\ ci' = r.ci
                /\ matcher' = r.matcher
                /\ last' = [op |-> "reindex", indexed |-> DOMAIN fi.files,
                            readErr |-> readErr, count |-> r.count,
                            size |-> r.size, err |-> r.err]
                /\ UNCHANGED <<pc, deb, gh, disk, watcher, apply, jobs>>

NextReindex == SyncDiskWrite \/ SyncDiskRemove \/ Reindex

SpecReindex == InitSync /\ [][NextReindex]_vars

\* The files on disk that survive the filter chain under the rules of the
\* ignore files as they are on disk, and are not binary.
SurvivorsOnDisk ==
    {p \in DOMAIN diskFilesOf(disk, NewMatcher(disk)) :
         ~IsBinaryContent(disk.files[p].content)}

\* Both indexes hold exactly the files of the set, with their content on
\* disk, and the returned count is their number.
IndexesHoldExactly(files) ==
    /\ DOMAIN fi.files = files
    /\ SeqToSet(fi.sortedPaths) = files
    /\ DOMAIN ci.fileContents = files
    /\ DocumentIDs(ci) = files
    /\ \A p \in files : ci.fileContents[p] = disk.files[p].content
    /\ last.count = Cardinality(files)

\* C13 as stated: after a reindex the two indexes hold exactly the files
\* on disk that survive the filter chain under the rules on disk and are
\* not binary, nothing older, and the returned count is the number of
\* files indexed.
C13_ReindexHoldsSurvivors ==
    (last.op = "reindex" /\ last.err = "nil") => IndexesHoldExactly(SurvivorsOnDisk)

\* C13, amended: the same for the surviving files that the scan can read.
C13_ReindexHoldsReadableSurvivors ==
    (last.op = "reindex" /\ last.err = "nil") =>
        IndexesHoldExactly(SurvivorsOnDisk \ last.readErr)

\* A reindex dropped the entry of a file that is still on disk and that
\* the rules now on disk exclude, and indexed the ignore file.
C13_WitnessNowIgnoredDropped ==
    /\ last.op = "reindex"
    /\ last.err = "nil"
    /\ last.readErr = {}
    /\ last.indexed = {FileA, DotGitignore}
    /\ FileA \in DOMAIN disk.files
    /\ DOMAIN fi.files = {DotGitignore}
    /\ last.count = 1

\* The apply step handles a debounced event for an ignore file of the root.
AppliesIgnoreFileEvent ==
    /\ apply.batch # <<>>
    /\ Head(apply.batch).Path \in {DotGitignore, DotClaudeignore}
    /\ apply' = [batch |-> Tail(apply.batch)]

\* C14: whenever the apply step handles the debounced event of an ignore
\* file of the root that was created, written, removed or renamed, it
\* reloads the matcher: the rules are then those of the ignore files as
\* they are on disk.
C14_ApplyReloadsOnIgnoreFileChange ==
    [][AppliesIgnoreFileEvent => matcher' = NewMatcher(disk)]_vars

(***************************************************************************)
(* SpecReload: the two ignore files are rewritten and removed, the matcher *)
(* is reloaded, and callers ask it for decisions.                          *)
(***************************************************************************)
IgnoreFileNames == {DotGitignore, DotClaudeignore}
IgnoreFileContents == {<<ChA>>, <<ChB>>, <<ChA, Newline, ChB>>}
DecidedPaths == {<<ChA>>, <<ChB>>, DotVs, PrunedFile}

InitReload ==
    /\ IdleIndexes
    /\ IdleDebouncer
    /\ IdleGoroutines
    /\ IdleTree
    /\ last = [op |-> "none", fresh |-> FALSE, unreadable |-> {},
               old |-> NewMatcher(EmptyDisk), path |-> <<>>, isDir |-> FALSE,
               result |-> FALSE]

ReloadDiskWrite ==
    \E name \in IgnoreFileNames : \E content \in IgnoreFileContents :
        /\ disk' = [disk EXCEPT !.files =
                        MapPut(@, name, [content |-> content, mod |-> 1])]
        /\ last' = [last EXCEPT !.op = "disk", !.fresh = FALSE]
        /\ UNCHANGED <<pc, jobs, watcher, apply, fi, ci, deb, gh, matcher>>

ReloadDiskRemove ==
    \E name \in IgnoreFileNames \cap DOMAIN disk.files :
        /\ disk' = [disk EXCEPT !.files = MapDelete(@, name)]
        /\ last' = [last EXCEPT !.op = "disk", !.fresh = FALSE]
        /\ UNCHANGED <<pc, jobs, watcher, apply, fi, ci, deb, gh, matcher>>

\* Matcher.Reload; unreadable: the ignore files that exist and cannot be
\* opened.
ReloadCall ==
    \E unreadable \in SUBSET (IgnoreFileNames \cap DOMAIN disk.files) :
        /\ matcher' = ReloadOpen(matcher, disk, unreadable)
        /\ last' = [last EXCEPT !.op = "reload", !.fresh = TRUE,
                                !.unreadable = unreadable, !.old = matcher]
        /\ UNCHANGED <<pc, jobs, watcher, apply, fi, ci, deb, gh, disk>>

\* ShouldIgnore / ShouldIgnoreDir called for a path.
Decide ==
    \E path \in DecidedPaths : \E isDir \in BOOLEAN :
        /\ last' = [last EXCEPT !.op = "decide", !.path = path, !.isDir = isDir,
                                !.result = IF isDir
                                           THEN ShouldIgnoreDir(matcher, path)
                                           ELSE ShouldIgnore(matcher, path)]
        /\ UNCHANGED <<pc, jobs, watcher, apply, fi, ci, deb, gh, disk, matcher>>

NextReload == ReloadDiskWrite \/ ReloadDiskRemove \/ ReloadCall \/ Decide

SpecReload == InitReload /\ [][NextReload]_vars

\* The rules of a layer as its file is on disk: the lines of the file,
\* none when the file is missing or could not be opened.
RulesOnDisk(name) ==
    IF name \in DOMAIN disk.files /\ name \notin last.unreadable
    THEN SeqToSet(Split(disk.files[name].content, Newline)) \ {<<>>}
    ELSE {}

\* The decision for a path under the default patterns and the rules on
\* disk.
DecisionOnDisk(path, isDir) ==
    \/ isDir /\ Base(path) \in FastSkipDirs
    \/ matchesDefaultPatterns(path)
    \/ IgnoreFileMatches(RulesOnDisk(DotGitignore), path)
    \/ IgnoreFileMatches(RulesOnDisk(DotClaudeignore), path)
    \/ matchesCustomPatterns(path)

\* C15: a decision made after reload() returned, with the ignore files
\* unchanged since, is the decision under the rules now on disk and not
\* under the old ones; a layer whose file is missing or unreadable at
\* reload time is empty.
C15_DecisionsUseReloadedRules ==
    (last.op = "decide" /\ last.fresh) =>
        /\ last.result = DecisionOnDisk(last.path, last.isDir)
        /\ matcher.gitIgnore = RulesOnDisk(DotGitignore)
        /\ matcher.claudeIgnore = RulesOnDisk(DotClaudeignore)

\* The matcher held the rule a, .gitignore was replaced by the rule b and
\* reloaded while .claudeignore could not be opened, and a is then not
\* ignored.
C15_WitnessReplacedAndUnreadable ==
    /\ last.op = "decide"
    /\ last.fresh
    /\ last.path = <<ChA>>
    /\ ~last.result
    /\ last.old.gitIgnore = {<<ChA>>}
    /\ last.old.claudeIgnore = {<<ChA>>}
    /\ DotGitignore \in DOMAIN disk.files
    /\ disk.files[DotGitignore].content = <<ChB>>
    /\ last.unreadable = {DotClaudeignore}

(***************************************************************************)
(* Force-include patterns.  A matcher built with ForceIncludePatterns      *)
(* (MatcherOptions) carries them, with the custom exclude patterns, next   *)
(* to its two rule sets.  The decision procedure with force-include        *)
(* follows the design of the matcher: rule 1 of its decision order, and    *)
(* the pruning rule of should_ignore_dir.                                  *)
(***************************************************************************)
Star == 42                                                       \* '*'
DotGit == <<46, 103, 105, 116>>                                  \* ".git"

\* filepath.Match for patterns of literal bytes and '*', which matches any
\* run of bytes other than the separator.
RECURSIVE GlobMatch(_, _)
GlobMatch(pattern, name) ==
    IF pattern = <<>> THEN name = <<>>
    ELSE IF Head(pattern) = Star
    THEN \/ GlobMatch(Tail(pattern), name)
         \/ name # <<>> /\ Head(name) # Slash /\ GlobMatch(pattern, Tail(name))
    ELSE name # <<>> /\ Head(name) = Head(pattern)
                     /\ GlobMatch(Tail(pattern), Tail(name))

\* A list of shell globs matched against the relative path and the base
\* name.
matchesPatterns(patterns, relativePath) ==
    \E pattern \in patterns :
        GlobMatch(pattern, relativePath) \/ GlobMatch(pattern, Base(relativePath))

matchesForceInclude(m, relativePath) ==
    matchesPatterns(m.forceIncludePatterns, relativePath)

\* The exclude layers: defaults, .gitignore, .claudeignore, custom.
ExcludeLayers(m, relativePath) ==
    ShouldIgnore(m, relativePath) \/ matchesPatterns(m.customPatterns, relativePath)

\* A slip: force-include consulted after the default patterns.
ShouldIgnoreForceAfterDefaults(m, relativePath) ==
    IF matchesDefaultPatterns(relativePath) THEN TRUE
    ELSE IF matchesForceInclude(m, relativePath) THEN FALSE
    ELSE ExcludeLayers(m, relativePath)

\* should_ignore with force-include: rule 1, then rules 2-5.
ShouldIgnoreForce(m, relativePath) ==
    IF matchesForceInclude(m, relativePath) THEN FALSE
    ELSE ExcludeLayers(m, relativePath)

IsPrefix(s, t) == Len(s) <= Len(t) /\ SubSeq(t, 1, Len(s)) = s

\* The pattern could match a file inside the directory: a pattern without
\* a separator matches base names anywhere, a pattern with one matches
\* below the directory it names as prefix.
couldMatchInside(pattern, dirPath) ==
    \/ \A i \in 1..Len(pattern) : pattern[i] # Slash
    \/ IsPrefix(dirPath \o <<Slash>>, pattern)

\* A slip: the fast prune list consulted before the force-include patterns.
ShouldIgnoreDirForceFastFirst(m, relativePath) ==
    IF Base(relativePath) \in FastSkipDirs \cup {DotGit} THEN TRUE
    ELSE IF \E pattern \in m.forceIncludePatterns :
                couldMatchInside(pattern, relativePath)
    THEN FALSE
    ELSE ShouldIgnoreForce(m, relativePath)

\* should_ignore_dir with force-include.
ShouldIgnoreDirForce(m, relativePath) ==
    IF Base(relativePath) = DotGit THEN TRUE
    ELSE IF \E pattern \in m.forceIncludePatterns :
                couldMatchInside(pattern, relativePath)
    THEN FALSE
    ELSE Base(relativePath) \in FastSkipDirs \/ ShouldIgnoreForce(m, relativePath)

(***************************************************************************)
(* SpecForce: matchers built with every configuration of a small family,   *)
(* asked for decisions on files and directories.                           *)
(***************************************************************************)
DirE == <<101>>                                                  \* "e"
WildcardPattern == <<Star, ChA>>                                 \* "*a"
PrefixPattern == DirD \o <<Slash, Star>>                         \* "d/*"
CustomPattern == <<Star, ChB>>                                   \* "*b"
ForceDirs == {DirD, DirE, DotVs, DotGit}
FilesIn(dir) == {Join(dir, <<ChA>>), Join(dir, <<ChB>>)}
ForceFiles == FilesIn(<<>>) \cup UNION {FilesIn(dir) : dir \in ForceDirs}
GitignoreChoices == {<<>>, <<ChA>>, DirD}
ClaudeignoreChoices == {<<>>, <<ChB>>}

\* The tree holding the two ignore files with the given rule (none for
\* the empty rule).
DiskWithRules(g, c) ==
    [dirs |-> {},
     files |-> [name \in {n \in {DotGitignore} : g # <<>>}
                           \cup {n \in {DotClaudeignore} : c # <<>>} |->
                    [content |-> IF name = DotGitignore THEN g ELSE c, mod |-> 1]]]

\* NewMatcher(MatcherOptions{CustomPatterns, ForceIncludePatterns})
NewMatcherOptions(d, customPatterns, forceIncludePatterns) ==
    [gitIgnore |-> loadIgnoreFile(d, DotGitignore),
     claudeIgnore |-> loadIgnoreFile(d, DotClaudeignore),
     customPatterns |-> customPatterns,
     forceIncludePatterns |-> forceIncludePatterns]

InitForce ==
    /\ IdleIndexes
    /\ IdleDebouncer
    /\ IdleGoroutines
    /\ \E g \in GitignoreChoices, c \in ClaudeignoreChoices :
       \E custom \in SUBSET {CustomPattern} :
       \E force \in SUBSET {WildcardPattern, PrefixPattern} :
           /\ disk = DiskWithRules(g, c)
           /\ matcher = NewMatcherOptions(disk, custom, force)
    /\ watcher = NewWatcher(EmptyDisk, NewMatcher(EmptyDisk))
    /\ apply = [batch |-> <<>>]
    /\ jobs = {}
    /\ last = [op |-> "none", path |-> <<>>, isDir |-> FALSE, result |-> FALSE]

ForceDecideFile ==
    \E path \in ForceFiles :
        /\ last' = [op |-> "decide", path |-> path, isDir |-> FALSE,
                    result |-> ShouldIgnoreForce(matcher, path)]
        /\ UNCHANGED <<pc, jobs, watcher, apply, fi, ci, deb, gh, disk, matcher>>

ForceDecideDir ==
    \E path \in ForceDirs :
        /\ last' = [op |-> "decide", path |-> path, isDir |-> TRUE,
                    result |-> ShouldIgnoreDirForce(matcher, path)]
        /\ UNCHANGED <<pc, jobs, watcher, apply, fi, ci, deb, gh, disk, matcher>>

NextForce == ForceDecideFile \/ ForceDecideDir

SpecForce == InitForce /\ [][NextForce]_vars

ForceIncludeMatchesInside(dir) ==
    \E F \in matcher.forceIncludePatterns : \E p \in FilesIn(dir) :
        GlobMatch(F, p) \/ GlobMatch(F, Base(p))

DirDE == Join(DirD, DirE)                                        \* "d/e"
FileDEA == Join(DirDE, <<ChA>>)
EnrollDirs == {DirD, DirDE, DirE, DotVs}
EnrollFiles == {FileDA, FileDEA, Join(DirE, <<ChA>>), PrunedFile}

InitEnroll ==
    /\ IdleIndexes
    /\ IdleDebouncer
    /\ IdleGoroutines
    /\ IdleTree
    /\ last = [op |-> "enroll", ops |-> 0, reached |-> {}]

\* os.Mkdir of a directory whose parent exists.
EnrollMkdir ==
    \E dir \in EnrollDirs \ disk.dirs :
        /\ last.ops < MaxDiskOps
        /\ Dir(dir) = <<>> \/ Dir(dir) \in disk.dirs
        /\ disk' = [disk EXCEPT !.dirs = @ \cup {dir}]
        /\ watcher' = [watcher EXCEPT !.events = Notify(dir, FsCreate)]
        /\ last' = [last EXCEPT !.ops = @ + 1]
        /\ UNCHANGED <<pc, jobs, fi, ci, deb, gh, matcher, apply>>

\* os.WriteFile creating a file in an existing directory.
EnrollCreateFile ==
    \E p \in EnrollFiles \ DOMAIN disk.files :
        /\ last.ops < MaxDiskOps
        /\ Dir(p) \in disk.dirs
        /\ disk' = [disk EXCEPT !.files =
                        MapPut(@, p, [content |-> <<ChA>>, mod |-> 1])]
        /\ watcher' = [watcher EXCEPT !.events = Notify(p, FsCreate)]
        /\ last' = [last EXCEPT !.ops = @ + 1]
        /\ UNCHANGED <<pc, jobs, fi, ci, deb, gh, matcher, apply>>

\* Watcher.Start: one native event is received and handled.
EnrollHandleEvent ==
    /\ watcher.events # <<>>
    /\ LET event == Head(watcher.events)
           r == handleEvent([watcher EXCEPT !.events = Tail(@)], deb, disk,
                            matcher, event)
       IN  /\ watcher' = r.watcher
           /\ deb' = r.deb
           /\ last' = [last EXCEPT !.reached =
                           IF event.Name \in DOMAIN r.deb.events
                           THEN @ \cup {event.Name} ELSE @]
    /\ UNCHANGED <<pc, jobs, fi, ci, gh, disk, matcher, apply>>

NextEnroll == EnrollMkdir \/ EnrollCreateFile \/ EnrollHandleEvent

SpecEnroll == InitEnroll /\ [][NextEnroll]_vars

\* Neither the directory nor a directory above it is rejected by
\* ShouldIgnoreDir.
NotRejected(dir) ==
    \A a \in {dir} \cup Ancestors(dir) : ~ShouldIgnoreDir(matcher, a)

\* C18: once the watcher has handled every native event, every directory
\* created after startup that ShouldIgnoreDir does not reject is enrolled
\* with the native watcher, also when it was created as part of a nested
\* subtree, and every file created in it has had an event reach the
\* debouncer.
C18_NewDirectoriesEnrolled ==
    watcher.events = <<>> =>
        \A dir \in disk.dirs :
            NotRejected(dir) =>
                /\ dir \in watcher.watched
                /\ \A p \in DOMAIN disk.files : Dir(p) = dir => p \in last.reached

(***************************************************************************)
(* index.ContentIndex.Search.  bleve analyses the content field and the    *)
(* text of match and phrase queries with its standard analyzer: the        *)
(* unicode word tokenizer, lower-casing, and the English stop word filter. *)
(* A regexp query is matched against single terms of the index.            *)
(***************************************************************************)
Space == 32
Tab == 9
CarriageReturn == 13
Quote == 34
Plus == 43
Dot == 46
Underscore == 95
LowerS == 115
LowerW == 119
DefaultMaxResults == 50
WindowFactor == 5

ToLowerByte(b) == IF b \in 65..90 THEN b + 32 ELSE b
ToLower(str) == [i \in 1..Len(str) |-> ToLowerByte(str[i])]

IsLetter(b) == b \in 65..90 \/ b \in 97..122
IsWordByte(b) == IsLetter(b) \/ b \in 48..57 \/ b = Underscore
IsSpace(b) == b \in {Space, Tab, Newline, CarriageReturn, 11, 12}

\* Word segmentation: letters, digits and underscores run together, and a
\* dot, colon or apostrophe between two letters does not break the word.
InToken(str, i) ==
    \/ IsWordByte(str[i])
    \/ /\ str[i] \in {Dot, 39, 58}
       /\ i > 1 /\ i < Len(str)
       /\ IsLetter(str[i - 1]) /\ IsLetter(str[i + 1])

\* The words of str from position i on, cur being the word in progress.
RECURSIVE TokensFrom(_, _, _)
TokensFrom(str, i, cur) ==
    IF i > Len(str) THEN (IF cur = <<>> THEN <<>> ELSE <<cur>>)
    ELSE IF InToken(str, i) THEN TokensFrom(str, i + 1, Append(cur, str[i]))
    ELSE IF cur = <<>> THEN TokensFrom(str, i + 1, <<>>)
    ELSE <<cur>> \o TokensFrom(str, i + 1, <<>>)

StopWords == {<<ChA>>, <<116, 104, 101>>, <<105, 115>>, <<111, 102>>}   \* a the is of

\* The terms of a text, in order.
Analyze(str) ==
    LET tokens == TokensFrom(str, 1, <<>>)
    IN  SelectSeq([i \in 1..Len(tokens) |-> ToLower(tokens[i])],
                  LAMBDA t : t \notin StopWords)

DocTerms(doc) == SeqToSet(Analyze(doc.Content))

RECURSIVE TrimLeft(_)
TrimLeft(str) ==
    IF str # <<>> /\ IsSpace(Head(str)) THEN TrimLeft(Tail(str)) ELSE str

RECURSIVE TrimRight(_)
TrimRight(str) ==
    IF str # <<>> /\ IsSpace(str[Len(str)])
    THEN TrimRight(SubSeq(str, 1, Len(str) - 1)) ELSE str

TrimSpace(str) == TrimRight(TrimLeft(str))

\* strings.HasPrefix(q, d) && strings.HasSuffix(q, d) && len(q) > 2
Wrapped(q, d) == Len(q) > 2 /\ q[1] = d /\ q[Len(q)] = d

Interior(q) == SubSeq(q, 2, Len(q) - 1)

buildQuery(queryString) ==
    LET q == TrimSpace(queryString)
    IN  IF Wrapped(q, Slash) THEN [kind |-> "regexp", text |-> Interior(q)]
        ELSE IF Wrapped(q, Quote) THEN [kind |-> "phrase", text |-> Interior(q)]
        ELSE [kind |-> "match", text |-> q]

extractSearchTerm(queryString) ==
    LET q == TrimSpace(queryString)
    IN  IF Wrapped(q, Slash) \/ Wrapped(q, Quote) THEN Interior(q) ELSE q

\* A regular expression of literal bytes, \s and \w, each with an optional
\* +, as a sequence of atoms.
RECURSIVE ParseRegexp(_)
ParseRegexp(p) ==
    IF p = <<>> THEN <<>>
    ELSE LET esc == p[1] = Backslash /\ Len(p) >= 2
             n == IF esc THEN 2 ELSE 1
             class == IF esc /\ p[2] = LowerS THEN "space"
                      ELSE IF esc /\ p[2] = LowerW THEN "word" ELSE "lit"
             plus == Len(p) > n /\ p[n + 1] = Plus
             rest == SubSeq(p, n + (IF plus THEN 2 ELSE 1), Len(p))
         IN  <<[class |-> class, ch |-> p[n], plus |-> plus]>> \o ParseRegexp(rest)

AtomMatches(atom, b) ==
    CASE atom.class = "space" -> IsSpace(b)
      [] atom.class = "word" -> IsWordByte(b)
      [] OTHER -> b = atom.ch

\* The atoms match the whole of str.
RECURSIVE RegexpMatch(_, _)
RegexpMatch(atoms, str) ==
    IF atoms = <<>> THEN str = <<>>
    ELSE /\ str # <<>>
         /\ AtomMatches(Head(atoms), Head(str))
         /\ \/ RegexpMatch(Tail(atoms), Tail(str))
            \/ Head(atoms).plus /\ RegexpMatch(atoms, Tail(str))

\* The terms of phrase occur in this order, next to each other.
ContainsPhrase(terms, phrase) ==
    /\ phrase # <<>>
    /\ \E i \in 1..Len(terms) :
           /\ i + Len(phrase) - 1 <= Len(terms)
           /\ SubSeq(terms, i, i + Len(phrase) - 1) = phrase

\* index.Search: the identifiers of the documents the query hits.
bleveHits(c, q) ==
    {id \in DOMAIN c.index :
        CASE q.kind = "regexp" ->
                 \E t \in DocTerms(c.index[id]) : RegexpMatch(ParseRegexp(q.text), t)
          [] q.kind = "phrase" ->
                 ContainsPhrase(Analyze(c.index[id].Content), Analyze(q.text))
          [] OTHER ->
                 SeqToSet(Analyze(q.text)) \cap DocTerms(c.index[id]) # {}}

\* strings.Contains
StrContains(str, sub) ==
    \E i \in 0..Len(str) :
        i + Len(sub) <= Len(str) /\ SubSeq(str, i + 1, i + Len(sub)) = sub

LineMatch(lines, k, contextLines) ==
    [LineNumber |-> k,
     LineText |-> lines[k],
     ContextBefore |-> IF contextLines > 0
                       THEN SubSeq(lines, IF k - contextLines < 1 THEN 1
                                          ELSE k - contextLines, k - 1)
                       ELSE <<>>,
     ContextAfter |-> IF contextLines > 0
                      THEN SubSeq(lines, k + 1, Min(k + contextLines, Len(lines)))
                      ELSE <<>>]

\* A slip: the lines are compared with the term as typed.
findMatchingLinesCaseSensitive(content, queryString, contextLines) ==
    LET lines == Split(content, Newline)
        searchTerm == extractSearchTerm(queryString)
        hit == SelectSeq([k \in 1..Len(lines) |-> k],
                         LAMBDA k : StrContains(lines[k], searchTerm))
    IN  [j \in 1..Len(hit) |-> LineMatch(lines, hit[j], contextLines)]

findMatchingLines(content, queryString, contextLines) ==
    LET lines == Split(content, Newline)
        searchTermLower == ToLower(extractSearchTerm(queryString))
        hit == SelectSeq([k \in 1..Len(lines) |-> k],
                         LAMBDA k : StrContains(ToLower(lines[k]), searchTermLower))
    IN  [j \in 1..Len(hit) |-> LineMatch(lines, hit[j], contextLines)]

\* doublestar.Match for patterns of literal bytes, * and a leading or
\* inner **/ (any number of directories).
RECURSIVE DoublestarMatch(_, _)
DoublestarMatch(pattern, name) ==
    IF Len(pattern) >= 3 /\ SubSeq(pattern, 1, 3) = <<Star, Star, Slash>>
    THEN \/ DoublestarMatch(SubSeq(pattern, 4, Len(pattern)), name)
         \/ \E i \in 1..Len(name) :
                /\ name[i] = Slash
                /\ DoublestarMatch(SubSeq(pattern, 4, Len(pattern)),
                                   SubSeq(name, i + 1, Len(name)))
    ELSE IF pattern = <<Star, Star>> THEN TRUE
    ELSE IF pattern = <<>> THEN name = <<>>
    ELSE IF Head(pattern) = Star
    THEN \/ DoublestarMatch(Tail(pattern), name)
         \/ name # <<>> /\ Head(name) # Slash /\ DoublestarMatch(pattern, Tail(name))
    ELSE name # <<>> /\ Head(name) = Head(pattern)
                     /\ DoublestarMatch(Tail(pattern), Tail(name))

\* The post-filters of Search for one hit.
PassesPathFilters(options, relativePath) ==
    LET normalizedFilePath == ReplaceBackslash(options.FilePath)
    IN  IF normalizedFilePath # <<>> THEN relativePath = normalizedFilePath
        ELSE IF options.FileGlob # <<>>
        THEN DoublestarMatch(ReplaceBackslash(options.FileGlob), relativePath)
        ELSE TRUE

\* A slip: the loop stops only once the limit is exceeded.
RECURSIVE SearchHitsBreakLate(_, _, _, _)
SearchHitsBreakLate(c, options, hits, acc) ==
    IF hits = <<>> THEN acc
    ELSE LET relativePath == Head(hits)
             lineMatches == findMatchingLines(c.fileContents[relativePath],
                                              options.Query, options.ContextLines)
         IN  IF \/ relativePath \notin DOMAIN c.fileContents
                \/ ~PassesPathFilters(options, relativePath)
                \/ lineMatches = <<>>
             THEN SearchHitsBreakLate(c, options, Tail(hits), acc)
             ELSE LET next == [results |-> Append(acc.results,
                                              [RelativePath |-> relativePath,
                                               Matches |-> lineMatches]),
                               totalMatches |-> acc.totalMatches + Len(lineMatches)]
                  IN  IF Len(next.results) > options.MaxResults
                      THEN next
                      ELSE SearchHitsBreakLate(c, options, Tail(hits), next)

\* The loop of Search over the hits, in the order bleve returned them.
RECURSIVE SearchHits(_, _, _, _)
SearchHits(c, options, hits, acc) ==
    IF hits = <<>> THEN acc
    ELSE LET relativePath == Head(hits)
             lineMatches == findMatchingLines(c.fileContents[relativePath],
                                              options.Query, options.ContextLines)
         IN  IF \/ relativePath \notin DOMAIN c.fileContents
                \/ ~PassesPathFilters(options, relativePath)
                \/ lineMatches = <<>>
             THEN SearchHits(c, options, Tail(hits), acc)
             ELSE LET next == [results |-> Append(acc.results,
                                              [RelativePath |-> relativePath,
                                               Matches |-> lineMatches]),
                               totalMatches |-> acc.totalMatches + Len(lineMatches)]
                  IN  IF Len(next.results) >= options.MaxResults
                      THEN next
                      ELSE SearchHits(c, options, Tail(hits), next)

\* Search; order: the hits as bleve ranks them.
Search(c, options, order) ==
    LET opts == [options EXCEPT
                     !.MaxResults = IF @ <= 0 THEN DefaultMaxResults ELSE @,
                     !.ContextLines = IF @ < 0 THEN 0 ELSE @]
        window == SubSeq(order, 1, Min(Len(order), opts.MaxResults * WindowFactor))
    IN  IF c.closed
        THEN [results |-> <<>>, totalMatches |-> 0, err |-> "searching index"]
        ELSE LET r == SearchHits(c, opts, window, [results |-> <<>>, totalMatches |-> 0])
             IN  [results |-> r.results, totalMatches |-> r.totalMatches, err |-> "nil"]

(***************************************************************************)
(* SpecSearch: files are indexed and removed, and searches are made.       *)
(***************************************************************************)
\* "srv.go"
SrvGo ==
    <<115, 114, 118, 46, 103, 111>>
\* "example.go"
ExampleGo ==
    <<101, 120, 97, 109, 112, 108, 101, 46, 103, 111>>
\* "func handleFoo()\nfunc handleBar()"
SrvContent ==
    <<102, 117, 110, 99, 32, 104, 97, 110, 100, 108, 101, 70, 111, 111, 40,
    41, 10, 102, 117, 110, 99, 32, 104, 97, 110, 100, 108, 101, 66, 97,
    114, 40, 41>>
\* "line1\nline2\nline3 target\nline4\nline5"
ExampleContent ==
    <<108, 105, 110, 101, 49, 10, 108, 105, 110, 101, 50, 10, 108, 105,
    110, 101, 51, 32, 116, 97, 114, 103, 101, 116, 10, 108, 105, 110, 101,
    52, 10, 108, 105, 110, 101, 53>>
\* "the Target"
TheContent ==
    <<116, 104, 101, 32, 84, 97, 114, 103, 101, 116>>
\* "/func\s+handle\w+/"
RegexQuery ==
    <<47, 102, 117, 110, 99, 92, 115, 43, 104, 97, 110, 100, 108, 101, 92,
    119, 43, 47>>
\* "target"
WordQuery ==
    <<116, 97, 114, 103, 101, 116>>
\* "TARGET"
UpperQuery ==
    <<84, 65, 82, 71, 69, 84>>
\* "targ": part of a word
PartQuery ==
    <<116, 97, 114, 103>>
\* "line3 target"
TwoWordQuery ==
    <<108, 105, 110, 101, 51, 32, 116, 97, 114, 103, 101, 116>>
\* "func"
FuncQuery ==
    <<102, 117, 110, 99>>
\* "the": a stop word
StopQuery ==
    <<116, 104, 101>>
\* the phrase query "line3 target", quotes included
PhraseQuery ==
    <<34, 108, 105, 110, 101, 51, 32, 116, 97, 114, 103, 101, 116, 34>>
\* "**/*.go"
GoGlob ==
    <<42, 42, 47, 42, 46, 103, 111>>

SearchPaths == {SrvGo, ExampleGo}
SearchContents == {SrvContent, ExampleContent, TheContent}
SearchQueries ==
    {RegexQuery, WordQuery, UpperQuery, PartQuery, TwoWordQuery, FuncQuery,
     StopQuery, PhraseQuery}

\* FilePath and FileGlob of a search: none, a path, a glob.
SearchFilters == {<<(<<>>), (<<>>)>>, <<SrvGo, (<<>>)>>, <<(<<>>), GoGlob>>}

InitSearch ==
    /\ IdleIndexes
    /\ IdleDebouncer
    /\ IdleGoroutines
    /\ IdleTree
    /\ last = [op |-> "none"]

SearchIndexFile ==
    \E relativePath \in SearchPaths : \E content \in SearchContents :
        /\ ci' = IndexFile(ci, relativePath, content, "Go", FALSE)
        /\ last' = [op |-> "index"]
        /\ UNCHANGED <<pc, jobs, watcher, apply, fi, deb, gh, disk, matcher>>

SearchRemoveFile ==
    \E relativePath \in DOMAIN ci.fileContents :
        /\ ci' = RemoveContent(ci, relativePath, FALSE)
        /\ last' = [op |-> "remove"]
        /\ UNCHANGED <<pc, jobs, watcher, apply, fi, deb, gh, disk, matcher>>

SearchCall ==
    \E query \in SearchQueries :
    \E order \in RangeOrders([id \in bleveHits(ci, buildQuery(query)) |-> id]) :
    \E filter \in SearchFilters, maxResults \in {0, 1}, contextLines \in {0, 1} :
        LET options == [Query |-> query, FilePath |-> filter[1], FileGlob |-> filter[2],
                        MaxResults |-> maxResults, ContextLines |-> contextLines]
        IN  /\ last' = [op |-> "search", options |-> options,
                        out |-> Search(ci, options, order)]
            /\ UNCHANGED <<pc, jobs, watcher, apply, fi, ci, deb, gh, disk, matcher>>

NextSearch == SearchIndexFile \/ SearchRemoveFile \/ SearchCall

SpecSearch == InitSearch /\ [][NextSearch]_vars

\* A search without path filter and with the default result limit.
UnfilteredSearch ==
    /\ last.op = "search"
    /\ last.options.FilePath = <<>>
    /\ last.options.FileGlob = <<>>
    /\ last.options.MaxResults = 0

\* C19: with srv.go indexed, holding the lines func handleFoo() and
\* func handleBar(), the regex search /func\s+handle\w+/ returns exactly
\* one file result, srv.go, with two line matches.
C19_RegexSearchFindsBothLines ==
    (/\ UnfilteredSearch
     /\ last.options.Query = RegexQuery
     /\ DOMAIN ci.index = {SrvGo}
     /\ ci.fileContents = (SrvGo :> SrvContent)) =>
        /\ Len(last.out.results) = 1
        /\ last.out.results[1].RelativePath = SrvGo
        /\ Len(last.out.results[1].Matches) = 2

\* The query is a word-level query: not wrapped in / or ".
WordLevel(query) == buildQuery(query).kind = "match"

\* Line k of the content holds the query, whatever the case of the letters.
OccursOnLine(content, k, query) ==
    /\ k \in 1..Len(Split(content, Newline))
    /\ StrContains(ToLower(Split(content, Newline)[k]), ToLower(query))

\* The results hold, for the file, a match of line k with the text of
\* that line.
ReturnsLine(relativePath, content, k) ==
    \E i \in 1..Len(last.out.results) :
        /\ last.out.results[i].RelativePath = relativePath
        /\ \E j \in 1..Len(last.out.results[i].Matches) :
               /\ last.out.results[i].Matches[j].LineNumber = k
               /\ last.out.results[i].Matches[j].LineText =
                      Split(content, Newline)[k]

\* C20 as stated: a word-level query that occurs, case-insensitively, as
\* a substring of line k of an indexed file makes an unfiltered search
\* return a match of line k of that file.
C20_SubstringQueryFindsLine ==
    (UnfilteredSearch /\ WordLevel(last.options.Query)) =>
        \A p \in DOMAIN ci.index :
        \A k \in DOMAIN Split(ci.fileContents[p], Newline) :
            OccursOnLine(ci.fileContents[p], k, last.options.Query) =>
                ReturnsLine(p, ci.fileContents[p], k)

\* C20, amended: the same when a word of the query is a word of the file.
C20_WordQueryFindsLine ==
    (UnfilteredSearch /\ WordLevel(last.options.Query)) =>
        \A p \in DOMAIN ci.index :
        \A k \in DOMAIN Split(ci.fileContents[p], Newline) :
            (/\ OccursOnLine(ci.fileContents[p], k, last.options.Query)
             /\ SeqToSet(Analyze(last.options.Query))
                    \cap SeqToSet(Analyze(ci.fileContents[p])) # {}) =>
                ReturnsLine(p, ci.fileContents[p], k)

\* The search for TARGET returned line 3 of example.go, which holds
\* target in lower case, and line 1 of srv.go, which holds Target.
C20_WitnessOtherCaseFound ==
    /\ UnfilteredSearch
    /\ last.options.Query = UpperQuery
    /\ ExampleGo \in DOMAIN ci.index
    /\ ci.fileContents[ExampleGo] = ExampleContent
    /\ SrvGo \in DOMAIN ci.index
    /\ ci.fileContents[SrvGo] = TheContent
    /\ ReturnsLine(ExampleGo, ExampleContent, 3)
    /\ ReturnsLine(SrvGo, TheContent, 1)
    /\ Len(last.out.results) = 2

(***************************************************************************)
(* SpecFilter: files are indexed one after the other and searches are made *)
(* with path filters and result limits.  bleve ranks hits of equal score   *)
(* in the one or the other order of the documents.                         *)
(***************************************************************************)
MaxDocs == 52
AppTs == <<97, 112, 112, 46, 116, 115>>                          \* "app.ts"
DSrvGo == Join(DirD, SrvGo)                                      \* "d/srv.go"
DSrvGoBackslash == DirD \o <<Backslash>> \o SrvGo                \* "d\srv.go"
TsGlob == <<42, 46, 116, 115>>                                  \* "*.ts"

\* The i-th file indexed: app.ts, d/srv.go, f03.go, f04.go, ...
FilterPath(i) ==
    IF i = 1 THEN AppTs
    ELSE IF i = 2 THEN DSrvGo
    ELSE <<102, 48 + (i \div 10), 48 + (i % 10)>> \o <<Dot, 103, 111>>

\* Its content: every file but the third holds the word target.
FilterContent(i) == IF i = 3 THEN SrvContent ELSE TheContent

FilterFilePaths == {<<>>, AppTs, DSrvGoBackslash, FilterPath(3), FilterPath(7)}
FilterGlobs == {<<>>, GoGlob, TsGlob}
FilterMaxResults == {-1, 0, 1, 2}

InitFilter ==
    /\ IdleIndexes
    /\ IdleDebouncer
    /\ IdleGoroutines
    /\ IdleTree
    /\ last = [op |-> "none"]

FilterIndexFile ==
    LET n == Cardinality(DOMAIN ci.fileContents)
    IN  /\ n < MaxDocs
        /\ ci' = IndexFile(ci, FilterPath(n + 1), FilterContent(n + 1), "Go", FALSE)
        /\ last' = [op |-> "index"]
        /\ UNCHANGED <<pc, jobs, watcher, apply, fi, deb, gh, disk, matcher>>

\* The hits among the first n files, in the order of indexing.
RECURSIVE HitsInOrder(_, _, _)
HitsInOrder(hits, i, n) ==
    IF i > n THEN <<>>
    ELSE (IF FilterPath(i) \in hits THEN <<FilterPath(i)>> ELSE <<>>)
             \o HitsInOrder(hits, i + 1, n)

Reverse(seq) == [i \in 1..Len(seq) |-> seq[Len(seq) + 1 - i]]

\* Search reads the index and leaves it as it is: the searches are made in
\* the states that indexing reaches.
FilterSearch ==
    LET ranked == HitsInOrder(bleveHits(ci, buildQuery(WordQuery)), 1,
                              Cardinality(DOMAIN ci.fileContents))
    IN  /\ last.op # "search"
        /\ \E order \in {ranked, Reverse(ranked)} :
           \E filePath \in FilterFilePaths, fileGlob \in FilterGlobs,
              maxResults \in FilterMaxResults :
               LET options == [Query |-> WordQuery, FilePath |-> filePath,
                               FileGlob |-> fileGlob, MaxResults |-> maxResults,
                               ContextLines |-> 0]
               IN  last' = [op |-> "search", options |-> options,
                            out |-> Search(ci, options, order)]
        /\ UNCHANGED <<pc, jobs, watcher, apply, fi, ci, deb, gh, disk, matcher>>

NextFilter == FilterIndexFile \/ FilterSearch

SpecFilter == InitFilter /\ [][NextFilter]_vars

ResultPaths ==
    {last.out.results[i].RelativePath : i \in 1..Len(last.out.results)}

\* The indexed file matches the query: bleve hits it and a line holds the
\* search term.
MatchesQuery(relativePath, query) ==
    /\ relativePath \in DOMAIN ci.index
    /\ relativePath \in DOMAIN ci.fileContents
    /\ relativePath \in bleveHits(ci, buildQuery(query))
    /\ findMatchingLines(ci.fileContents[relativePath], query, 0) # <<>>

\* C21: with file_path set, with or without file_glob, the results are
\* exactly the file whose path is file_path with backslashes turned into
\* slashes, if that file matches the query, whether or not the path matches
\* the glob; with only file_glob set, every returned path matches the glob.
C21_FilePathOverridesFileGlob ==
    last.op = "search" =>
        LET normalized == ReplaceBackslash(last.options.FilePath)
        IN  /\ last.options.FilePath # <<>> =>
                ResultPaths = IF MatchesQuery(normalized, last.options.Query)
                              THEN {normalized} ELSE {}
            /\ (last.options.FilePath = <<>> /\ last.options.FileGlob # <<>>) =>
                \A p \in ResultPaths : DoublestarMatch(last.options.FileGlob, p)

RECURSIVE SumMatches(_)
SumMatches(results) ==
    IF results = <<>> THEN 0
    ELSE Len(Head(results).Matches) + SumMatches(Tail(results))

\* C22: a search returns at most max_results file results, 50 when
\* max_results is 0 or negative; no path is in two results; every result
\* has a line match; the total returned is the sum of the line matches of
\* the results.
C22_ResultsWithinLimit ==
    last.op = "search" =>
        /\ Len(last.out.results) <=
               (IF last.options.MaxResults <= 0 THEN DefaultMaxResults
                ELSE last.options.MaxResults)
        /\ \A i, j \in 1..Len(last.out.results) :
               last.out.results[i].RelativePath = last.out.results[j].RelativePath
                   => i = j
        /\ \A i \in 1..Len(last.out.results) : last.out.results[i].Matches # <<>>
        /\ last.out.totalMatches = SumMatches(last.out.results)

\* More files than the default limit match, and a search with
\* max_results 0 returned as many results as the default limit.
C22_WitnessDefaultLimitReached ==
    /\ last.op = "search"
    /\ last.options.MaxResults = 0
    /\ last.options.FilePath = <<>>
    /\ last.options.FileGlob = <<>>
    /\ Cardinality(bleveHits(ci, buildQuery(last.options.Query))) > DefaultMaxResults
    /\ Len(last.out.results) = DefaultMaxResults


(***************************************************************************)
(* SpecGlob: the file index filled one AddFile at a time, in an order that *)
(* is not the lexicographic one, and searched with SearchByGlob.           *)
(* SearchByGlob takes the read lock only, so a search is one step; it is   *)
(* taken from the states that adding reaches, and last records its         *)
(* arguments, the index it ran on and what it returned.                    *)
(***************************************************************************)
MaxGlobFiles == 54

OpenBracket == 91

\* doublestar.ValidatePattern for the patterns of the model: a character
\* class that is opened must be closed.
ValidatePattern(pattern) ==
    \A i \in 1..Len(pattern) :
        pattern[i] = OpenBracket =>
            \E j \in (i + 2)..Len(pattern) : pattern[j] = 93

\* The loop of SearchByGlob over sortedPaths[i..], with a path that is a key
\* of files appended when it matches, until maxResults paths are collected.
RECURSIVE SearchByGlobScanBreakLate(_, _, _, _, _)
SearchByGlobScanBreakLate(f, pattern, maxResults, i, results) ==
    IF i > Len(f.sortedPaths) \/ Len(results) > maxResults THEN results
    ELSE SearchByGlobScanBreakLate(f, pattern, maxResults, i + 1,
             IF /\ DoublestarMatch(pattern, f.sortedPaths[i])
                /\ f.sortedPaths[i] \in DOMAIN f.files
             THEN Append(results, f.sortedPaths[i])
             ELSE results)

RECURSIVE SearchByGlobScan(_, _, _, _, _)
SearchByGlobScan(f, pattern, maxResults, i, results) ==
    IF i > Len(f.sortedPaths) \/ Len(results) >= maxResults THEN results
    ELSE SearchByGlobScan(f, pattern, maxResults, i + 1,
             IF /\ DoublestarMatch(pattern, f.sortedPaths[i])
                /\ f.sortedPaths[i] \in DOMAIN f.files
             THEN Append(results, f.sortedPaths[i])
             ELSE results)

\* FileIndex.SearchByGlob: the relative paths of the results and whether the
\* call failed.
SearchByGlob(f, pattern, maxResults) ==
    LET limit == IF maxResults <= 0 THEN DefaultMaxResults ELSE maxResults
        normalized == ReplaceBackslash(pattern)
    IN  IF ~ValidatePattern(normalized)
        THEN [results |-> <<>>, err |-> TRUE]
        ELSE [results |-> SearchByGlobScan(f, normalized, limit, 1, <<>>),
              err |-> FALSE]

SrcMainGo == <<115, 114, 99, 47, 109, 97, 105, 110, 46, 103, 111>>  \* "src/main.go"
ReadmeMd == <<82, 69, 65, 68, 77, 69, 46, 109, 100>>                \* "README.md"
TestMainGo == <<116, 47, 109, 46, 103, 111>>                        \* "t/m.go"

\* The path of the i-th AddFile: the numbered files come in descending
\* order.
GlobPath(i) ==
    IF i = 1 THEN SrcMainGo
    ELSE IF i = 2 THEN ReadmeMd
    ELSE IF i = 3 THEN TestMainGo
    ELSE IF i = 4 THEN AppTs
    ELSE <<102, 48 + ((99 - i) \div 10), 48 + ((99 - i) % 10)>> \o <<Dot, 103, 111>>

DeepGoGlob == <<Star, Star, Slash>> \o GoGlob                       \* "**/*.go"
SrcGoGlob == <<115, 114, 99, Slash>> \o DeepGoGlob                  \* "src/**/*.go"
SrcGoGlobBackslash == <<115, 114, 99, Backslash>> \o GoGlob         \* "src\*.go"
InvalidGlob == <<OpenBracket, 105>>                                 \* "[i"

GlobPatterns ==
    {DeepGoGlob, GoGlob, SrcGoGlob, SrcGoGlobBackslash, TsGlob, InvalidGlob}

GlobMaxResults == {-1, 0, 1, 2, 5}

InitGlob ==
    /\ IdleIndexes
    /\ IdleDebouncer
    /\ IdleGoroutines
    /\ IdleTree
    /\ last = [op |-> "none"]

GlobAddFile ==
    LET n == Len(fi.sortedPaths)
    IN  /\ last.op # "glob"
        /\ n < MaxGlobFiles
        /\ fi' = AddFile(fi, IndexedFile(GlobPath(n + 1), 1 + (n % MaxSize), 1, 1))
        /\ last' = [op |-> "add"]
        /\ UNCHANGED <<pc, jobs, watcher, apply, ci, deb, gh, disk, matcher>>

GlobSearch ==
    /\ last.op # "glob"
    /\ \E pattern \in GlobPatterns, maxResults \in GlobMaxResults :
           last' = [op |-> "glob", pattern |-> pattern,
                    maxResults |-> maxResults, before |-> fi,
                    out |-> SearchByGlob(fi, pattern, maxResults)]
    /\ UNCHANGED <<pc, jobs, watcher, apply, fi, ci, deb, gh, disk, matcher>>

NextGlob == GlobAddFile \/ GlobSearch

SpecGlob == InitGlob /\ [][NextGlob]_vars

\* The indexed relative paths that match the normalised pattern.
GlobMatches(pattern) ==
    {p \in DOMAIN fi.files : DoublestarMatch(ReplaceBackslash(pattern), p)}

\* C23: for a valid pattern SearchByGlob succeeds and returns, in strictly
\* ascending lexicographic order, matching indexed paths only; it returns
\* min(n', |M|) of them, n' being the limit or 50 when the limit is 0 or
\* less, and every matching path it left out sorts after every path it
\* returned; the index is the one the call started on.
C23_GlobReturnsFirstMatches ==
    (last.op = "glob" /\ ValidatePattern(ReplaceBackslash(last.pattern))) =>
        LET r == last.out.results
            M == GlobMatches(last.pattern)
            limit == IF last.maxResults > 0 THEN last.maxResults
                     ELSE DefaultMaxResults
        IN  /\ ~last.out.err
            /\ SeqToSet(r) \subseteq M
            /\ \A i \in 1..Len(r) - 1 : StrLess(r[i], r[i + 1])
            /\ Len(r) = (IF Cardinality(M) < limit THEN Cardinality(M) ELSE limit)
            /\ \A p \in M \ SeqToSet(r) : \A i \in 1..Len(r) : StrLess(r[i], p)
            /\ fi = last.before

\* A search with limit 0 on an index with more than 50 matching paths and
\* with paths that do not match, cut at 50.
C23_WitnessDefaultLimitCuts ==
    /\ last.op = "glob"
    /\ last.maxResults = 0
    /\ last.pattern = DeepGoGlob
    /\ Len(last.out.results) = DefaultMaxResults
    /\ Cardinality(GlobMatches(last.pattern)) > DefaultMaxResults
    /\ ReadmeMd \in DOMAIN fi.files


(***************************************************************************)
(* SpecPeriodic: main from the parsing of --sync-interval to the close of  *)
(* the stop channel, with the goroutine of runPeriodicSync and its ticker. *)
(* pc.main is where main is, pc.reconciler where runPeriodicSync is        *)
(* ("none" while it was never started), pc.stop the state of syncStop      *)
(* ("nil" while it was never made), pc.tick the number of values buffered  *)
(* in ticker.C, a channel of capacity 1.  A select with several ready      *)
(* cases takes any of them, so the two cases of the loop are two actions.  *)
(* last.sweeps tells whether a sweep was begun, last.late whether one was  *)
(* begun after the close of the stop channel.                              *)
(***************************************************************************)
PeriodicIntervals == {-1, 0, 1}

\* main starts the reconciler for a positive interval only.
StartsReconcilerNonNegative(syncInterval) == syncInterval >= 0

StartsReconciler(syncInterval) == syncInterval > 0

InitPeriodic ==
    /\ IdleIndexes
    /\ IdleDebouncer
    /\ disk = EmptyDisk
    /\ matcher = NewMatcher(EmptyDisk)
    /\ watcher = NewWatcher(EmptyDisk, NewMatcher(EmptyDisk))
    /\ apply = [batch |-> <<>>]
    /\ jobs = {}
    /\ \E syncInterval \in PeriodicIntervals :
           pc = [main |-> "flags", syncInterval |-> syncInterval,
                 reconciler |-> "none", stop |-> "nil", tick |-> 0]
    /\ last = [op |-> "periodic", sweeps |-> FALSE, late |-> FALSE]

\* A file of the project is created, written or deleted.
PeriodicDiskWrite ==
    /\ \E content \in {<<ChA>>, <<ChB>>}, mod \in 1..MaxTime :
           disk' = [disk EXCEPT !.files =
                        MapPut(@, FileA, [content |-> content, mod |-> mod])]
    /\ UNCHANGED <<pc, last, jobs, watcher, apply, fi, ci, deb, gh, matcher>>

PeriodicDiskRemove ==
    /\ FileA \in DOMAIN disk.files
    /\ disk' = [disk EXCEPT !.files = MapDelete(@, FileA)]
    /\ UNCHANGED <<pc, last, jobs, watcher, apply, fi, ci, deb, gh, matcher>>

\* main: a negative --sync-interval ends the process with status 1.
MainParseFlags ==
    /\ pc.main = "flags"
    /\ pc' = [pc EXCEPT !.main = IF pc.syncInterval < 0 THEN "exit1" ELSE "scan"]
    /\ UNCHANGED <<last, jobs, watcher, apply, fi, ci, deb, gh, disk, matcher>>

\* main: the matcher is built and the initial scan runs.
MainInitialScan ==
    /\ pc.main = "scan"
    /\ LET m == NewMatcher(disk)
           r == performIndexing(disk, m, fi, ci, {})
       IN  /\ matcher' = m
           /\ fi' = r.fi
           /\ ci' = r.ci
    /\ pc' = [pc EXCEPT !.main = "startSync"]
    /\ UNCHANGED <<last, jobs, watcher, apply, deb, gh, disk>>

\* main: the stop channel is made and runPeriodicSync started, which creates
\* its ticker and enters its loop; then main serves requests.
MainStartSync ==
    /\ pc.main = "startSync"
    /\ pc' = IF StartsReconciler(pc.syncInterval)
             THEN [pc EXCEPT !.main = "serving", !.stop = "open",
                             !.reconciler = "select"]
             ELSE [pc EXCEPT !.main = "serving"]
    /\ UNCHANGED <<last, jobs, watcher, apply, fi, ci, deb, gh, disk, matcher>>

\* main: close(syncStop), deferred where the channel was made.
MainCloseStop ==
    /\ pc.main = "serving"
    /\ pc' = [pc EXCEPT !.main = "stopped",
                        !.stop = IF pc.stop = "open" THEN "closed" ELSE @]
    /\ UNCHANGED <<last, jobs, watcher, apply, fi, ci, deb, gh, disk, matcher>>

\* The ticker sends on ticker.C, and drops the value when the buffer is
\* full; it runs until the deferred ticker.Stop().
TickerFire ==
    /\ pc.reconciler \in {"select", "sweep"}
    /\ pc.tick = 0
    /\ pc' = [pc EXCEPT !.tick = 1]
    /\ UNCHANGED <<last, jobs, watcher, apply, fi, ci, deb, gh, disk, matcher>>

\* runPeriodicSync: case <-stop.
ReconcilerSelectStop ==
    /\ pc.reconciler = "select"
    /\ pc.stop = "closed"
    /\ pc' = [pc EXCEPT !.reconciler = "returned"]
    /\ UNCHANGED <<last, jobs, watcher, apply, fi, ci, deb, gh, disk, matcher>>

\* runPeriodicSync: case <-ticker.C.
ReconcilerSelectTick ==
    /\ pc.reconciler = "select"
    /\ pc.tick = 1
    /\ pc' = [pc EXCEPT !.reconciler = "sweep", !.tick = 0]
    /\ last' = [last EXCEPT !.sweeps = TRUE,
                            !.late = @ \/ pc.stop = "closed"]
    /\ UNCHANGED <<jobs, watcher, apply, fi, ci, deb, gh, disk, matcher>>

\* runPeriodicSync: performSyncVerification and the log line.
ReconcilerSweep ==
    /\ pc.reconciler = "sweep"
    /\ LET end == performSyncVerification(disk, matcher, fi, ci, {})
       IN  /\ fi' = end.fi
           /\ ci' = end.ci
    /\ pc' = [pc EXCEPT !.reconciler = "select"]
    /\ UNCHANGED <<last, jobs, watcher, apply, deb, gh, disk, matcher>>

NextPeriodic ==
    \/ PeriodicDiskWrite \/ PeriodicDiskRemove
    \/ MainParseFlags \/ MainInitialScan \/ MainStartSync \/ MainCloseStop
    \/ TickerFire
    \/ ReconcilerSelectStop \/ ReconcilerSelectTick \/ ReconcilerSweep

SpecPeriodic == InitPeriodic /\ [][NextPeriodic]_vars

\* The goroutine is scheduled, so a begun sweep ends; select chooses among
\* its ready cases at random, so a case that is ready every time the loop
\* comes back to the select is taken in the end.
SpecPeriodicFair ==
    /\ SpecPeriodic
    /\ WF_vars(ReconcilerSweep)
    /\ SF_vars(ReconcilerSelectStop)

\* C24: once the stop channel is closed runPeriodicSync returns in the end,
\* and no sweep is begun after the close: at most the sweep in progress is
\* completed.
C24_StopEndsTheLoop ==
    /\ [](~last.late)
    /\ (pc.stop = "closed") ~> (pc.reconciler = "returned")


\* C25 as stated: with an interval of 0 or less the reconciler is never
\* started and no sweep is begun, and the process gets past its flags and
\* runs.
C25_NonPositiveIntervalDisables ==
    pc.syncInterval <= 0 =>
        /\ pc.reconciler = "none"
        /\ ~last.sweeps
        /\ pc.main # "exit1"

\* C25, amended: with an interval of 0 the reconciler is never started, no
\* stop channel is made, no sweep is begun and main is never ended by the
\* flag check; with a negative interval main ends with status 1 at the flag
\* check, before the scan, and nothing is indexed or started.
C25_ZeroIntervalDisables ==
    /\ pc.syncInterval = 0 =>
           /\ pc.reconciler = "none"
           /\ pc.stop = "nil"
           /\ pc.tick = 0
           /\ ~last.sweeps
           /\ pc.main # "exit1"
    /\ pc.syncInterval < 0 =>
           /\ pc.main \in {"flags", "exit1"}
           /\ pc.reconciler = "none"
           /\ ~last.sweeps
           /\ fi = NewFileIndex
           /\ ci = NewContentIndex

\* With an interval of 0, main scanned a tree that holds a file, served and
\* returned, and the tree was changed after the scan.
C25_WitnessServedWithoutReconciler ==
    /\ pc.syncInterval = 0
    /\ pc.main = "stopped"
    /\ FileA \in DOMAIN fi.files
    /\ FileA \notin DOMAIN disk.files


(***************************************************************************)
(* SpecClose: the loop of Watcher.Start beside the debouncer, its timer    *)
(* callbacks, the consumer of Events() and a call of Watcher.Close.        *)
(* pc.loop is where Start is: at its select, inside handleEvent with an    *)
(* event in hand (where Debouncer.Add waits for d.mu), or returned.        *)
(* pc.chans tells whether fsnotify's Events and Errors channels are open;  *)
(* fsnotify closes both when its Close is called.  pc.errors counts the    *)
(* values the loop took from Errors, pc.atClose records what the close     *)
(* found.  The native events are writes of one file.                       *)
(***************************************************************************)
MaxCallbacks == 2   \* started flush callbacks that have not run yet
MaxErrors == 1      \* values sent on fsnotify's Errors channel

\* A slip: the closed channel ends the select, not the loop.
StartOnReceiveBreakOnly(ok) == IF ok THEN "handle" ELSE "select"

\* Start: where the loop goes after a receive from Events.
StartOnReceive(ok) == IF ok THEN "handle" ELSE "returned"

InitClose ==
    /\ IdleIndexes
    /\ IdleDebouncer
    /\ IdleTree
    /\ pc = [loop |-> "select", chans |-> "open", errors |-> 0,
             atClose |-> [called |-> FALSE]]
    /\ last = [op |-> "none", path |-> <<>>, short |-> FALSE, prev |-> <<>>,
               batch |-> <<>>, pend |-> <<>>]

\* Start: case event, ok := <-w.fsWatcher.Events, with a value.
StartReceiveEvent ==
    /\ pc.loop = "select"
    /\ pc.chans = "open"
    /\ deb.callbacks < MaxCallbacks
    /\ pc' = [pc EXCEPT !.loop = StartOnReceive(TRUE)]
    /\ UNCHANGED <<last, jobs, watcher, apply, disk, matcher, fi, ci, deb, gh>>

\* Start: handleEvent, whose Debouncer.Add takes d.mu.
StartHandleEvent ==
    /\ pc.loop = "handle"
    /\ deb.mu = "free"
    /\ deb' = handleEvent(watcher, deb, disk, matcher, FsEvent(FileA, FsWrite)).deb
    /\ pc' = [pc EXCEPT !.loop = "select"]
    /\ UNCHANGED <<last, jobs, watcher, apply, disk, matcher, fi, ci, gh>>

\* Start: case err, ok := <-w.fsWatcher.Errors, with a value: a warning.
StartReceiveError ==
    /\ pc.loop = "select"
    /\ pc.chans = "open"
    /\ pc.errors < MaxErrors
    /\ pc' = [pc EXCEPT !.errors = @ + 1]
    /\ UNCHANGED <<last, jobs, watcher, apply, disk, matcher, fi, ci, deb, gh>>

\* Start: a receive from a closed channel.
StartReceiveClosed ==
    /\ pc.loop = "select"
    /\ pc.chans = "closed"
    /\ pc' = [pc EXCEPT !.loop = StartOnReceive(FALSE)]
    /\ UNCHANGED <<last, jobs, watcher, apply, disk, matcher, fi, ci, deb, gh>>

\* Watcher.Close: fsnotify closes its two channels.
WatcherClose ==
    /\ pc.chans = "open"
    /\ pc' = [pc EXCEPT !.chans = "closed",
                        !.atClose = [called |-> TRUE, loop |-> pc.loop,
                                     errors |-> pc.errors,
                                     pending |-> deb.events # <<>>,
                                     blocked |-> deb.mu = "flush",
                                     queued |-> Len(deb.output)]]
    /\ UNCHANGED <<last, jobs, watcher, apply, disk, matcher, fi, ci, deb, gh>>

\* A started flush goroutine takes d.mu and runs.
CloseFlush ==
    /\ deb.callbacks > 0
    /\ deb.mu = "free"
    /\ \E order \in RangeOrders(deb.events) :
           deb' = flush([deb EXCEPT !.callbacks = @ - 1], order)
    /\ UNCHANGED <<pc, last, jobs, watcher, apply, disk, matcher, fi, ci, gh>>

\* handleWatcherEvents receives one batch from Events().
CloseReceive ==
    /\ deb.output # <<>>
    /\ deb' = [deb EXCEPT !.output = Tail(@)]
    /\ UNCHANGED <<pc, last, jobs, watcher, apply, disk, matcher, fi, ci, gh>>

NextClose ==
    \/ StartReceiveEvent \/ StartHandleEvent \/ StartReceiveError
    \/ StartReceiveClosed \/ WatcherClose
    \/ DebTick \/ DebTimerFire \/ CloseFlush \/ DebFlushSend \/ CloseReceive

SpecClose == InitClose /\ [][NextClose]_vars

\* The goroutines of Start, of the timer callbacks and of the consumer are
\* scheduled, and time passes.
SpecCloseFair ==
    /\ SpecClose
    /\ WF_vars(StartHandleEvent)
    /\ WF_vars(StartReceiveClosed)
    /\ WF_vars(DebTick)
    /\ WF_vars(DebTimerFire)
    /\ WF_vars(CloseFlush)
    /\ WF_vars(DebFlushSend)
    /\ WF_vars(CloseReceive)

\* C26: once Close was called Start returns in the end, whatever the
\* debouncer held at that moment; Start returns only after a Close, so an
\* error received before it did not end the loop.
C26_CloseEndsTheLoop ==
    /\ (pc.chans = "closed") ~> (pc.loop = "returned")
    /\ [](pc.loop = "returned" => pc.chans = "closed")

\* Start returned after a Close that found the loop inside handleEvent,
\* waiting for the mutex that a flush held while blocked on the full output
\* channel, and after an error had been received.
C26_WitnessClosedWhileBlocked ==
    /\ pc.loop = "returned"
    /\ pc.atClose.called
    /\ pc.atClose.loop = "handle"
    /\ pc.atClose.blocked
    /\ pc.atClose.queued = OutputCap
    /\ pc.atClose.errors > 0

\* Start returned after a Close that found an event pending in the
\* debouncer, its timer not yet expired.
C26_WitnessClosedWhilePending ==
    /\ pc.loop = "returned"
    /\ pc.atClose.called
    /\ pc.atClose.pending


(***************************************************************************)
(* SpecRace: two goroutines that write the indexes, the apply step of      *)
(* handleWatcherEvents and the sweep of the reconciler, working on one     *)
(* path while the file is written and deleted.  Each index takes its own   *)
(* lock for one call only, so indexSingleFile is four steps here (the stat *)
(* of the caller, the read, AddFile, IndexFile) and a removal is two       *)
(* (RemoveFile of the file index, RemoveFile of the content index).        *)
(* pc[w] is where writer w is and what it holds.  The k-th version of the  *)
(* file has modification time k and a content of its own.                  *)
(* last.overlap: a writer started while the other was at work;             *)
(* last.torn: a writer read another version than the one it had stat'ed;   *)
(* last.deleted: the file was deleted at some time, so a Remove event may  *)
(* reach the apply step; last.removed: the apply step has applied a        *)
(* Remove while the file was gone, and the file was not written since.     *)
(***************************************************************************)
RaceWriters == {"apply", "sync"}

RaceContent(version) == <<ChA + version - 1>>

IdleWriter == [at |-> "idle", info |-> [size |-> 0, mod |-> 0], content |-> <<>>]

InitRace ==
    /\ IdleIndexes
    /\ IdleDebouncer
    /\ IdleTree
    /\ pc = [w \in RaceWriters |-> IdleWriter]
    /\ last = [op |-> "race", overlap |-> FALSE, torn |-> FALSE,
               deleted |-> FALSE, removed |-> FALSE]

OtherAtWork(w) == \E o \in RaceWriters \ {w} : pc[o].at # "idle"

RaceDiskWrite ==
    /\ \E version \in 1..MaxTime :
           disk' = [disk EXCEPT !.files =
                        MapPut(@, FileA, [content |-> RaceContent(version),
                                          mod |-> version])]
    /\ last' = [last EXCEPT !.removed = FALSE]
    /\ UNCHANGED <<pc, jobs, watcher, apply, fi, ci, deb, gh, matcher>>

RaceDiskRemove ==
    /\ FileA \in DOMAIN disk.files
    /\ disk' = [disk EXCEPT !.files = MapDelete(@, FileA)]
    /\ last' = [last EXCEPT !.deleted = TRUE]
    /\ UNCHANGED <<pc, jobs, watcher, apply, fi, ci, deb, gh, matcher>>

\* The sweep finds the file missing from its snapshot of the index, or with
\* another modification time.
SyncWouldIndex(d, m, f, path) ==
    /\ path \in DOMAIN diskFilesOf(d, m)
    /\ IF path \in DOMAIN indexedSetOf(f)
       THEN diskFilesOf(d, m)[path].mod # indexedSetOf(f)[path].ModTime
       ELSE TRUE

\* The sweep finds the file in its snapshot of the index and not on disk.
SyncWouldRemove(d, m, f, path) ==
    /\ path \in DOMAIN indexedSetOf(f)
    /\ path \notin DOMAIN diskFilesOf(d, m)

\* A writer passes its filters and keeps the FileInfo for indexSingleFile.
RaceStat(w) ==
    /\ pc[w].at = "idle"
    /\ IF w = "sync" THEN SyncWouldIndex(disk, matcher, fi, FileA)
       ELSE PassesFilters("apply", disk, matcher, FileA)
    /\ pc' = [pc EXCEPT ![w] = [at |-> "stat", info |-> FileInfo(disk, FileA),
                                content |-> <<>>]]
    /\ last' = [last EXCEPT !.overlap = @ \/ OtherAtWork(w)]
    /\ UNCHANGED <<jobs, watcher, apply, fi, ci, deb, gh, disk, matcher>>

\* indexSingleFile: readFileWithRetry and the binary check.
RaceRead(w) ==
    /\ pc[w].at = "stat"
    /\ IF FileA \notin DOMAIN disk.files
       THEN /\ pc' = [pc EXCEPT ![w] = IdleWriter]
            /\ last' = last
       ELSE /\ pc' = [pc EXCEPT ![w] =
                         IF IsBinaryContent(disk.files[FileA].content)
                         THEN IdleWriter
                         ELSE [@ EXCEPT !.at = "read",
                                        !.content = disk.files[FileA].content]]
            /\ last' = [last EXCEPT !.torn =
                            @ \/ FileInfo(disk, FileA) # pc[w].info]
    /\ UNCHANGED <<jobs, watcher, apply, fi, ci, deb, gh, disk, matcher>>

\* indexSingleFile: fileIndex.AddFile(indexedFile).
RaceAddFile(w) ==
    /\ pc[w].at = "read"
    /\ fi' = AddFile(fi, IndexedFile(FileA, pc[w].info.size, pc[w].info.mod,
                                     LineCount(pc[w].content)))
    /\ pc' = [pc EXCEPT ![w].at = "added"]
    /\ UNCHANGED <<last, jobs, watcher, apply, ci, deb, gh, disk, matcher>>

\* indexSingleFile: contentIndex.IndexFile(relativePath, contentStr, lang).
RaceIndexFile(w) ==
    /\ pc[w].at = "added"
    /\ ci' = IndexFile(ci, FileA, pc[w].content, DetectLanguage(FileA), FALSE)
    /\ pc' = [pc EXCEPT ![w] = IdleWriter]
    /\ UNCHANGED <<last, jobs, watcher, apply, fi, deb, gh, disk, matcher>>

\* The apply step takes a Remove event, or the sweep found the path stale:
\* fileIndex.RemoveFile(relPath).
RaceRemoveFile(w) ==
    /\ pc[w].at = "idle"
    /\ IF w = "sync" THEN SyncWouldRemove(disk, matcher, fi, FileA)
       ELSE last.deleted
    /\ fi' = RemoveFile(fi, FileA)
    /\ pc' = [pc EXCEPT ![w].at = "removing"]
    /\ last' = [last EXCEPT !.overlap = @ \/ OtherAtWork(w)]
    /\ UNCHANGED <<jobs, watcher, apply, ci, deb, gh, disk, matcher>>

\* contentIndex.RemoveFile(relPath).
RaceRemoveContent(w) ==
    /\ pc[w].at = "removing"
    /\ ci' = RemoveContent(ci, FileA, FALSE)
    /\ pc' = [pc EXCEPT ![w] = IdleWriter]
    /\ last' = [last EXCEPT !.removed =
                    @ \/ (w = "apply" /\ FileA \notin DOMAIN disk.files)]
    /\ UNCHANGED <<jobs, watcher, apply, fi, deb, gh, disk, matcher>>

NextRace ==
    \/ RaceDiskWrite \/ RaceDiskRemove
    \/ \E w \in RaceWriters :
           \/ RaceStat(w) \/ RaceRead(w) \/ RaceAddFile(w) \/ RaceIndexFile(w)
           \/ RaceRemoveFile(w) \/ RaceRemoveContent(w)

SpecRace == InitRace /\ [][NextRace]_vars

\* C27: when two writers worked on the path at the same time, each on one
\* version of the file, and both are done, the path is in the file index
\* exactly if it is in the content index, and the metadata and the stored
\* content are those of one version.
C27_ConcurrentWritersAgree ==
    (last.overlap /\ ~last.torn /\ \A w \in RaceWriters : pc[w].at = "idle") =>
        /\ FileA \in DOMAIN fi.files <=> FileA \in DOMAIN ci.fileContents
        /\ FileA \in DOMAIN fi.files /\ FileA \in DOMAIN ci.fileContents =>
               /\ ci.fileContents[FileA] = RaceContent(fi.files[FileA].ModTime)
               /\ fi.files[FileA].SizeBytes = Len(ci.fileContents[FileA])
               /\ fi.files[FileA].LineCount = LineCount(ci.fileContents[FileA])

\* C28: once the apply step has applied a Remove for the path, and while the
\* file is not created again, the path is in neither index.
C28_RemovedPathStaysOut ==
    last.removed =>
        /\ FileA \notin DOMAIN fi.files
        /\ FileA \notin DOMAIN ci.fileContents


(***************************************************************************)
(* The reconciler's sweep as a repair, under SpecSync: a sweep is one      *)
(* step there, so nothing changes the tree or the indexes during it.       *)
(***************************************************************************)
\* The files of the sweep's disk snapshot whose content is not binary.
SyncSurvivors ==
    {p \in DOMAIN diskFilesOf(disk, matcher) :
         ~IsBinaryContent(disk.files[p].content)}

\* C29: after a sweep in which every read succeeded, both indexes hold
\* exactly the files on disk that survive the filters and are not binary,
\* and every stored content is the content on disk; so it is after a sweep
\* that counted nothing.
C29_SweepLeavesIndexInSync ==
    (last.op = "sync" /\ last.readErr = {}) =>
        /\ DOMAIN fi.files = SyncSurvivors
        /\ DOMAIN ci.fileContents = SyncSurvivors
        /\ \A p \in SyncSurvivors \cap DOMAIN ci.fileContents :
               ci.fileContents[p] = disk.files[p].content


(***************************************************************************)
(* The quiet window, under SpecDeb.  The timer armed by the latest Add     *)
(* still has deb.timer.rem ticks to run.                                   *)
(***************************************************************************)
\* C30: a flush that emits a batch runs a full interval or more after the
\* latest Add: the timer that the latest Add armed is not still running.
C30_NoBatchBeforeQuietInterval ==
    (last.op = "flush" /\ last.batch # <<>>) =>
        ~(deb.timer.st = "armed" /\ deb.timer.rem > 0)

\* C40: once the stop channel is closed, the loop of runPeriodicSync does
\* not go from its select into a sweep, whether or not a tick is buffered.
C40_NoSweepBeginsAfterStop ==
    [][(pc.stop = "closed" /\ pc.reconciler = "select")
           => pc'.reconciler # "sweep"]_vars

\* C37: a search that returns fewer files than its limit returns every
\* indexed file that is a hit of the query, passes the path filters and has
\* a matching line, however many other hits fail the filters.
C37_FilterNeverHidesMatch ==
    last.op = "search" =>
        LET limit == IF last.options.MaxResults <= 0 THEN DefaultMaxResults
                     ELSE last.options.MaxResults
        IN  Len(last.out.results) < limit =>
                \A p \in DOMAIN ci.fileContents :
                    (/\ MatchesQuery(p, last.options.Query)
                     /\ PassesPathFilters(last.options, p))
                        => p \in ResultPaths


(***************************************************************************)
(* SpecHandle: the watcher goroutine handles native events of every flag   *)
(* combination fsnotify can deliver, for a file, a directory and a pruned  *)
(* directory, while the directories appear on disk and the debounce       *)
(* timer runs down.  last holds the event handled last and the debouncer   *)
(* and the enrolled directories before it.                                 *)
(***************************************************************************)
FsOps == {FsCreate, FsWrite, FsRemove, FsRename, FsChmod}
MaxFlags == 2        \* the most flags one native event carries
NativeFlagSets == {ops \in SUBSET FsOps : Cardinality(ops) \in 1..MaxFlags}
HandleDirs == {DirD, DotVs}
HandlePaths == {FileDA} \cup HandleDirs

InitHandle ==
    /\ IdleIndexes
    /\ IdleDebouncer
    /\ IdleGoroutines
    /\ IdleTree
    /\ last = [op |-> "idle"]

\* os.Mkdir below the root.
HandleMkdir ==
    \E dir \in HandleDirs \ disk.dirs :
        /\ disk' = [disk EXCEPT !.dirs = @ \cup {dir}]
        /\ last' = [op |-> "mkdir"]
        /\ UNCHANGED <<pc, jobs, fi, ci, deb, gh, matcher, watcher, apply>>

\* The debounce timer runs down; it is not let fire here.
HandleTick ==
    /\ deb.timer.st = "armed"
    /\ deb.timer.rem > 1
    /\ deb' = [deb EXCEPT !.timer.rem = @ - 1]
    /\ last' = [op |-> "tick"]
    /\ UNCHANGED <<pc, jobs, fi, ci, gh, disk, matcher, watcher, apply>>

\* Watcher.Start receives one native event and calls handleEvent.
HandleNative ==
    \E path \in HandlePaths, op \in NativeFlagSets :
        LET event == [Name |-> path, Op |-> op]
            r == handleEvent(watcher, deb, disk, matcher, event)
        IN  /\ watcher' = r.watcher
            /\ deb' = r.deb
            /\ last' = [op |-> "handle", event |-> event, deb |-> deb,
                        watched |-> watcher.watched]
            /\ UNCHANGED <<pc, jobs, fi, ci, gh, disk, matcher, apply>>

NextHandle == HandleMkdir \/ HandleTick \/ HandleNative

SpecHandle == InitHandle /\ [][NextHandle]_vars

\* op is the first of Create, Write, Remove, Rename whose flag is in flags.
FirstCarried(op, flags) ==
    \/ op = OpCreate /\ FsCreate \in flags
    \/ op = OpWrite /\ FsWrite \in flags /\ FsCreate \notin flags
    \/ op = OpRemove /\ FsRemove \in flags /\ flags \cap {FsCreate, FsWrite} = {}
    \/ op = OpRename /\ FsRename \in flags
          /\ flags \cap {FsCreate, FsWrite, FsRemove} = {}

\* The event handled last created a directory that exists.
CreatedDirectory ==
    FsCreate \in last.event.Op /\ last.event.Name \in disk.dirs

\* C38 as stated: a create event of an existing directory enrolls it unless
\* ShouldIgnoreDir rejects it and pushes nothing; otherwise an event whose
\* path ShouldIgnore rejects pushes nothing; otherwise exactly one
\* (path, op) is pushed, op being the first of Create, Write, Remove, Rename
\* the event carries.
C38_EveryEventPushesOne ==
    last.op = "handle" =>
        LET path == last.event.Name
        IN  IF CreatedDirectory
            THEN /\ deb = last.deb
                 /\ watcher.watched =
                        IF ShouldIgnoreDir(matcher, path) THEN last.watched
                        ELSE last.watched \cup {path}
            ELSE /\ watcher.watched = last.watched
                 /\ IF ShouldIgnore(matcher, path) THEN deb = last.deb
                    ELSE \E op \in EventOps :
                             /\ FirstCarried(op, last.event.Op)
                             /\ deb = Add(last.deb, path, op)

\* C38: as above, and an event that carries none of the four flags (a
\* Chmod alone) pushes nothing.
C38_HandleEventByFlags ==
    last.op = "handle" =>
        LET path == last.event.Name
            flags == last.event.Op
        IN  IF CreatedDirectory
            THEN /\ deb = last.deb
                 /\ watcher.watched =
                        IF ShouldIgnoreDir(matcher, path) THEN last.watched
                        ELSE last.watched \cup {path}
            ELSE /\ watcher.watched = last.watched
                 /\ IF ShouldIgnore(matcher, path) THEN deb = last.deb
                    ELSE IF flags = {FsChmod} THEN deb = last.deb
                    ELSE \E op \in EventOps :
                             /\ FirstCarried(op, flags)
                             /\ deb = Add(last.deb, path, op)

\* An event carrying Create and Write for a path that is not ignored has
\* been pushed as a Create, over a pending Remove of the same path.
C38_Witness ==
    /\ last.op = "handle"
    /\ last.event = [Name |-> FileDA, Op |-> {FsCreate, FsWrite}]
    /\ FileDA \in DOMAIN last.deb.events
    /\ last.deb.events[FileDA].Op = OpRemove
    /\ deb.events[FileDA].Op = OpCreate
    /\ DirD \in watcher.watched


\* The apply step takes the last event of its batch, and it is a Create or
\* a Write of .gitignore or .claudeignore: the step reloads the rules.
AppliesReloadEndingBatch ==
    /\ apply.batch # <<>>
    /\ apply'.batch = <<>>
    /\ Len(apply.batch) = 1
    /\ Head(apply.batch).Op \in {OpCreate, OpWrite}
    /\ Base(Head(apply.batch).Path) \in {DotGitignore, DotClaudeignore}
    /\ matcher' = Reload(matcher, disk)

\* C35: when the apply step has processed a batch in which an ignore file
\* changed, every path held in either index is one the reloaded rules do
\* not ignore.
C35_IndexesObeyReloadedRules ==
    [][AppliesReloadEndingBatch =>
           \A p \in DOMAIN fi'.files \cup DOMAIN ci'.fileContents :
               ~ShouldIgnore(matcher', p)]_vars


(***************************************************************************)
(* SpecMove: the watcher, the debouncer and the apply step as in SpecWatch *)
(* while files are written and removed, directories are made, and a        *)
(* directory is moved out of the tree with everything in it.  last.applied *)
(* holds the event the apply step handled last, the batch it came from and *)
(* the indexes and the matcher before it.                                  *)
(***************************************************************************)
InitMove ==
    /\ IdleIndexes
    /\ IdleDebouncer
    /\ IdleGoroutines
    /\ IdleTree
    /\ last = [op |-> "watch", ops |-> 0, touched |-> {}, applied |-> <<>>]

\* os.Rename of a directory to a place outside the root: inotify reports
\* the move of the directory to the watch of its parent and nothing for
\* the files in it, and the watch of the directory goes with it.
MoveDirOut ==
    \E dir \in disk.dirs :
        /\ last.ops < MaxDiskOps
        /\ disk' = [dirs |-> disk.dirs \ {dir},
                    files |-> [p \in {q \in DOMAIN disk.files : Dir(q) # dir}
                                   |-> disk.files[p]]]
        /\ watcher' = [events |-> Notify(dir, FsRename),
                       watched |-> watcher.watched \ {dir}]
        /\ last' = [last EXCEPT !.ops = @ + 1,
                                !.touched = {p \in @ : Dir(p) # dir}]
        /\ UNCHANGED <<pc, jobs, fi, ci, deb, gh, matcher, apply>>

\* handleWatcherEvents applies the next event of the batch in hand and goes
\* on with the rest of the batch, whether the event was skipped or not.
MoveApplyEvent ==
    /\ apply.batch # <<>>
    /\ LET r == applyEvent(disk, matcher, fi, ci, Head(apply.batch))
       IN  /\ fi' = r.fi
           /\ ci' = r.ci
           /\ matcher' = r.matcher
    /\ apply' = [batch |-> Tail(apply.batch)]
    /\ last' = [last EXCEPT !.applied =
                    <<[event |-> Head(apply.batch), batch |-> apply.batch,
                       fi |-> fi, ci |-> ci, matcher |-> matcher]>>]
    /\ UNCHANGED <<pc, jobs, deb, gh, disk, watcher>>

NextMove ==
    \/ WatchWriteFile \/ WatchRemoveFile \/ WatchMkdir \/ MoveDirOut
    \/ WatcherHandleEvent
    \/ DebTick \/ DebTimerFire \/ WatchFlush
    \/ WatchReceive \/ MoveApplyEvent

SpecMove == InitMove /\ [][NextMove]_vars

\* relativePath is held by neither index.
InNoIndex(f, c, relativePath) ==
    /\ relativePath \notin DOMAIN f.files
    /\ \A i \in 1..Len(f.sortedPaths) : f.sortedPaths[i] # relativePath
    /\ relativePath \notin DOMAIN c.fileContents
    /\ relativePath \notin DOMAIN c.index

\* C39: after the apply step has handled a Remove or Rename event the path
\* is in neither index, whether or not the rules ignore it; if the path
\* was not indexed neither index has changed; and whatever the event came
\* to, the rest of its batch is still there to be applied.
C39_RemoveClearsBothIndexes ==
    last.applied # <<>> =>
        LET was == last.applied[1]
            relPath == was.event.Path
        IN  /\ Len(was.batch) > 1 => apply.batch = Tail(was.batch)
            /\ was.event.Op \in {OpRemove, OpRename} =>
                   /\ InNoIndex(fi, ci, relPath)
                   /\ relPath \notin DOMAIN was.fi.files => fi = was.fi
                   /\ relPath \notin DOMAIN was.ci.fileContents \cup
                                     DOMAIN was.ci.index => ci = was.ci

\* The apply step has removed an indexed file that the rules, reloaded
\* earlier in the same batch, ignore.
C39_Witness ==
    /\ last.applied # <<>>
    /\ last.applied[1].event = DebouncedEvent(FileA, OpRemove)
    /\ Len(last.applied[1].batch) = 1
    /\ FileA \in DOMAIN last.applied[1].fi.files
    /\ FileA \in DOMAIN last.applied[1].ci.fileContents
    /\ ShouldIgnore(last.applied[1].matcher, FileA)
    /\ InNoIndex(fi, ci, FileA)

\* C36: after the apply step has handled a Remove or Rename event of a
\* directory, neither index holds a path under that directory.
C36_DirectoryRemovalClearsSubtree ==
    (/\ last.applied # <<>>
     /\ last.applied[1].event.Op \in {OpRemove, OpRename}
     /\ last.applied[1].event.Path \in WatchDirs)
        => \A p \in DOMAIN fi.files \cup DOMAIN ci.fileContents \cup
                    DOMAIN ci.index :
               last.applied[1].event.Path \notin Ancestors(p)


(***************************************************************************)
(* SpecSwap: Matcher.Reload and Matcher.ShouldIgnore seen statement by     *)
(* statement.  The apply step and the reindex tool each call Reload once   *)
(* while a third goroutine keeps evaluating ShouldIgnore and the two       *)
(* ignore files are rewritten.  pc[t] holds where goroutine t is, the rule *)
(* sets it has in hand, and whether everything it read from disk is still  *)
(* what the disk holds.  last.pairs holds every pair of rule sets the      *)
(* matcher was built or reloaded with.                                     *)
(***************************************************************************)
SwapReloaders == {"apply", "reindex"}
SwapEvaluator == "eval"
MaxRewrites == 2     \* rewrites of the ignore files per run of SpecSwap
SwapContents == {<<ChA>>, <<ChB>>}

InitSwap ==
    /\ IdleIndexes
    /\ IdleDebouncer
    /\ IdleTree
    /\ pc = [t \in SwapReloaders \cup {SwapEvaluator} |->
                 [at |-> "idle", git |-> {}, claude |-> {}, fresh |-> FALSE]]
    /\ last = [op |-> "swap", writes |-> 0, pairs |-> {NewMatcher(EmptyDisk)}]

\* A slip ShouldIgnore could make: it reads the rule sets without RLock, so
\* that nothing keeps it out while a Reload holds the lock.
WriterHoldsUnseen == FALSE

\* m.mu is held for writing: a Reload is between Lock and its return.
WriterHolds == \E t \in SwapReloaders : pc[t].at \in {"locked", "gitSet"}

\* m.mu is held for reading: ShouldIgnore is between RLock and its return.
ReaderHolds == pc[SwapEvaluator].at \in {"rlocked", "gitRead"}

\* An ignore file is rewritten.
SwapDiskWrite ==
    \E name \in {DotGitignore, DotClaudeignore} : \E content \in SwapContents :
        /\ last.writes < MaxRewrites
        /\ name \in DOMAIN disk.files => disk.files[name].content # content
        /\ disk' = [disk EXCEPT !.files =
                        MapPut(@, name, [content |-> content, mod |-> 1])]
        /\ pc' = [t \in DOMAIN pc |-> [pc[t] EXCEPT !.fresh = FALSE]]
        /\ last' = [last EXCEPT !.writes = @ + 1]
        /\ UNCHANGED <<jobs, watcher, apply, fi, ci, deb, gh, matcher>>

\* Reload: newGitIgnore := loadIgnoreFile(".gitignore")
SwapLoadGit(t) ==
    /\ pc[t].at = "idle"
    /\ pc' = [pc EXCEPT ![t] = [at |-> "gitLoaded",
                                git |-> loadIgnoreFile(disk, DotGitignore),
                                claude |-> {}, fresh |-> TRUE]]
    /\ UNCHANGED <<jobs, watcher, apply, fi, ci, deb, gh, disk, matcher, last>>

\* Reload: newClaudeIgnore := loadIgnoreFile(".claudeignore")
SwapLoadClaude(t) ==
    /\ pc[t].at = "gitLoaded"
    /\ pc' = [pc EXCEPT ![t].at = "loaded",
                        ![t].claude = loadIgnoreFile(disk, DotClaudeignore)]
    /\ UNCHANGED <<jobs, watcher, apply, fi, ci, deb, gh, disk, matcher, last>>

\* Reload: m.mu.Lock()
SwapLock(t) ==
    /\ pc[t].at = "loaded"
    /\ ~WriterHolds
    /\ ~ReaderHolds
    /\ pc' = [pc EXCEPT ![t].at = "locked"]
    /\ UNCHANGED <<jobs, watcher, apply, fi, ci, deb, gh, disk, matcher, last>>

\* Reload: m.gitIgnore = newGitIgnore
SwapSetGit(t) ==
    /\ pc[t].at = "locked"
    /\ matcher' = [matcher EXCEPT !.gitIgnore = pc[t].git]
    /\ pc' = [pc EXCEPT ![t].at = "gitSet"]
    /\ UNCHANGED <<jobs, watcher, apply, fi, ci, deb, gh, disk, last>>

\* Reload: m.claudeIgnore = newClaudeIgnore, and the deferred Unlock.
SwapSetClaude(t) ==
    /\ pc[t].at = "gitSet"
    /\ matcher' = [matcher EXCEPT !.claudeIgnore = pc[t].claude]
    /\ pc' = [pc EXCEPT ![t].at = "done"]
    /\ last' = [last EXCEPT !.pairs = @ \cup {matcher'}]
    /\ UNCHANGED <<jobs, watcher, apply, fi, ci, deb, gh, disk>>

\* ShouldIgnore: m.mu.RLock()
EvalRLock ==
    /\ pc[SwapEvaluator].at \in {"idle", "done"}
    /\ ~WriterHolds
    /\ pc' = [pc EXCEPT ![SwapEvaluator] =
                  [at |-> "rlocked", git |-> {}, claude |-> {}, fresh |-> FALSE]]
    /\ UNCHANGED <<jobs, watcher, apply, fi, ci, deb, gh, disk, matcher, last>>

\* ShouldIgnore: m.gitIgnore.Relative(relativePath, isDir)
EvalGit ==
    /\ pc[SwapEvaluator].at = "rlocked"
    /\ pc' = [pc EXCEPT ![SwapEvaluator].at = "gitRead",
                        ![SwapEvaluator].git = matcher.gitIgnore]
    /\ UNCHANGED <<jobs, watcher, apply, fi, ci, deb, gh, disk, matcher, last>>

\* ShouldIgnore: m.claudeIgnore.Relative(relativePath, isDir), and the
\* deferred RUnlock.
EvalClaude ==
    /\ pc[SwapEvaluator].at = "gitRead"
    /\ pc' = [pc EXCEPT ![SwapEvaluator].at = "done",
                        ![SwapEvaluator].claude = matcher.claudeIgnore]
    /\ UNCHANGED <<jobs, watcher, apply, fi, ci, deb, gh, disk, matcher, last>>

NextSwap ==
    \/ SwapDiskWrite
    \/ \E t \in SwapReloaders :
           \/ SwapLoadGit(t) \/ SwapLoadClaude(t) \/ SwapLock(t)
           \/ SwapSetGit(t) \/ SwapSetClaude(t)
    \/ EvalRLock \/ EvalGit \/ EvalClaude

SpecSwap == InitSwap /\ [][NextSwap]_vars

\* The two rule sets the evaluation that returned last worked with.
EvaluatedWith ==
    [gitIgnore |-> pc[SwapEvaluator].git, claudeIgnore |-> pc[SwapEvaluator].claude]

\* C33: the two rule sets an evaluation of ShouldIgnore has worked with are
\* a pair the matcher was built or reloaded with, never the one set of one
\* reload and the other set of another.
C33_EvaluationSeesOneReload ==
    pc[SwapEvaluator].at = "done" => EvaluatedWith \in last.pairs

\* An evaluation that waited for a Reload, which replaced both rule sets,
\* has returned.
C33_Witness ==
    /\ pc[SwapEvaluator].at = "done"
    /\ EvaluatedWith # NewMatcher(EmptyDisk)
    /\ EvaluatedWith.gitIgnore # {}
    /\ EvaluatedWith.claudeIgnore # {}
    /\ \E t \in SwapReloaders : pc[t].at = "done"
    /\ \E t \in SwapReloaders : pc[t].at = "loaded"

\* C34: when both Reload calls have returned and one of them read the
\* ignore files after their last rewrite, the installed rule sets are those
\* of the files as they are on disk.
C34_OverlappingReloadsInstallLatest ==
    (/\ \A t \in SwapReloaders : pc[t].at = "done"
     /\ \E t \in SwapReloaders : pc[t].fresh)
        => matcher = NewMatcher(disk)


(***************************************************************************)
(* SpecScan: performIndexing with its goroutines.  The walker visits the   *)
(* files of the tree in lexical order and sends a job for every survivor   *)
(* to the buffered channel jobs; the workers receive jobs, call            *)
(* indexSingleFile and add to the two counters under mu; the walker closes *)
(* the channel, waits for the workers and returns the counters.  pc holds  *)
(* the walker's remaining files, the channel, every worker's position and  *)
(* job, the holder of mu, the counters and the returned pair.              *)
(* last.handled[p] is the sequence of workers that took the job of p,      *)
(* last.succeeded the paths whose indexSingleFile returned nil.            *)
(***************************************************************************)
ScanWorkers == 2     \* workerCount, 8 in the source
JobsCap == 1         \* capacity of the jobs channel, 100 in the source
ScanFileB == <<ChB>>
ScanPaths == {FileA, ScanFileB, FileDA, PrunedFile}
ScanContents(p) ==
    CASE p = FileA -> {<<ChA>>, LargeContent}
      [] p = ScanFileB -> {<<ChA, ChB>>, BinaryContent}
      [] OTHER -> {<<ChA>>}

\* The files of the tree as filepath.WalkDir reaches them.
RECURSIVE WalkOrder(_)
WalkOrder(todo) ==
    IF todo = {} THEN <<>>
    ELSE <<FirstPath(todo)>> \o WalkOrder(todo \ {FirstPath(todo)})

InitScan ==
    /\ IdleIndexes
    /\ IdleDebouncer
    /\ watcher = NewWatcher(EmptyDisk, NewMatcher(EmptyDisk))
    /\ apply = [batch |-> <<>>]
    /\ jobs = {}
    /\ \E present \in SUBSET ScanPaths :
       \E content \in [present -> UNION {ScanContents(p) : p \in ScanPaths}] :
           /\ \A p \in present : content[p] \in ScanContents(p)
           /\ disk = [dirs |-> {Dir(p) : p \in present} \ {<<>>},
                      files |-> [p \in present |->
                                     [content |-> content[p], mod |-> 1]]]
           /\ pc = [walk |-> WalkOrder(present), jobs |-> <<>>,
                    closed |-> FALSE,
                    worker |-> [w \in 1..ScanWorkers |->
                                    [at |-> "recv", job |-> <<>>,
                                     count |-> 0, size |-> 0]],
                    mu |-> 0, indexedCount |-> 0, totalSize |-> 0,
                    result |-> <<>>]
           /\ last = [op |-> "scan", handled |-> [p \in present |-> <<>>],
                      succeeded |-> {}]
    /\ matcher = NewMatcher(disk)

\* A slip performIndexing could make: the counters are updated without mu.
MuFreeUnchecked == TRUE

\* mu is free.
MuFree == pc.mu = 0

\* The WalkDir callback for the next file: a file that a filter rejects is
\* passed over, a survivor is sent to jobs, which blocks while the buffer
\* is full.
ScanWalkFile ==
    /\ pc.walk # <<>>
    /\ LET p == Head(pc.walk)
       IN  IF p \in DOMAIN diskFilesOf(disk, matcher)
           THEN /\ Len(pc.jobs) < JobsCap
                /\ pc' = [pc EXCEPT !.walk = Tail(@),
                                    !.jobs = Append(@, [relPath |-> p,
                                                        info |-> FileInfo(disk, p)])]
           ELSE pc' = [pc EXCEPT !.walk = Tail(@)]
    /\ UNCHANGED <<jobs, watcher, apply, fi, ci, deb, gh, disk, matcher, last>>

\* close(jobs)
ScanCloseJobs ==
    /\ pc.walk = <<>>
    /\ ~pc.closed
    /\ pc' = [pc EXCEPT !.closed = TRUE]
    /\ UNCHANGED <<jobs, watcher, apply, fi, ci, deb, gh, disk, matcher, last>>

\* for job := range jobs: a worker receives the next job.
WorkerReceive(w) ==
    /\ pc.worker[w].at = "recv"
    /\ pc.jobs # <<>>
    /\ pc' = [pc EXCEPT !.jobs = Tail(@),
                        !.worker[w].at = "index",
                        !.worker[w].job = <<Head(pc.jobs)>>]
    /\ last' = [last EXCEPT !.handled[Head(pc.jobs).relPath] = Append(@, w)]
    /\ UNCHANGED <<jobs, watcher, apply, fi, ci, deb, gh, disk, matcher>>

\* The range loop ends on the closed and drained channel: wg.Done().
WorkerExit(w) ==
    /\ pc.worker[w].at = "recv"
    /\ pc.jobs = <<>>
    /\ pc.closed
    /\ pc' = [pc EXCEPT !.worker[w].at = "exit"]
    /\ UNCHANGED <<jobs, watcher, apply, fi, ci, deb, gh, disk, matcher, last>>

\* indexSingleFile for the job in hand; on an error the worker continues
\* with the next job.
WorkerIndex(w) ==
    /\ pc.worker[w].at = "index"
    /\ \E readFails \in BOOLEAN :
           LET job == pc.worker[w].job[1]
               r == indexSingleFile(disk, fi, ci, job.relPath, job.info, readFails)
           IN  /\ fi' = r.fi
               /\ ci' = r.ci
               /\ pc' = [pc EXCEPT !.worker[w].at =
                                       IF r.err = "nil" THEN "lock" ELSE "recv"]
               /\ last' = [last EXCEPT !.succeeded =
                               IF r.err = "nil" THEN @ \cup {job.relPath} ELSE @]
    /\ UNCHANGED <<jobs, watcher, apply, deb, gh, disk, matcher>>

\* mu.Lock(), and the worker reads the two counters.
WorkerLock(w) ==
    /\ pc.worker[w].at = "lock"
    /\ MuFree
    /\ pc' = [pc EXCEPT !.mu = w,
                        !.worker[w].at = "locked",
                        !.worker[w].count = pc.indexedCount,
                        !.worker[w].size = pc.totalSize]
    /\ UNCHANGED <<jobs, watcher, apply, fi, ci, deb, gh, disk, matcher, last>>

\* indexedCount++; totalSize += job.info.Size(); mu.Unlock()
WorkerCount(w) ==
    /\ pc.worker[w].at = "locked"
    /\ pc' = [pc EXCEPT !.mu = 0,
                        !.indexedCount = pc.worker[w].count + 1,
                        !.totalSize = pc.worker[w].size
                                          + pc.worker[w].job[1].info.size,
                        !.worker[w].at = "recv"]
    /\ UNCHANGED <<jobs, watcher, apply, fi, ci, deb, gh, disk, matcher, last>>

\* wg.Wait() returns and performIndexing returns the two counters.
ScanReturn ==
    /\ pc.closed
    /\ pc.result = <<>>
    /\ \A w \in 1..ScanWorkers : pc.worker[w].at = "exit"
    /\ pc' = [pc EXCEPT !.result = <<[count |-> pc.indexedCount,
                                      size |-> pc.totalSize]>>]
    /\ UNCHANGED <<jobs, watcher, apply, fi, ci, deb, gh, disk, matcher, last>>

NextScan ==
    \/ ScanWalkFile \/ ScanCloseJobs \/ ScanReturn
    \/ \E w \in 1..ScanWorkers :
           \/ WorkerReceive(w) \/ WorkerExit(w) \/ WorkerIndex(w)
           \/ WorkerLock(w) \/ WorkerCount(w)

SpecScan == InitScan /\ [][NextScan]_vars

\* The Go scheduler runs some goroutine that can take a step.
SpecScanFair == SpecScan /\ WF_vars(NextScan)

RECURSIVE SumOfSizes(_, _)
SumOfSizes(d, paths) ==
    IF paths = {} THEN 0
    ELSE LET p == FirstPath(paths)
         IN  FileInfo(d, p).size + SumOfSizes(d, paths \ {p})

ScanReturned == pc.result # <<>>

\* Every survivor of the walk was received by exactly one worker, once,
\* no other file by any, and the returned pair counts the files whose
\* indexSingleFile succeeded and sums their sizes.
ScanOutcomeExact ==
    /\ \A p \in DOMAIN disk.files :
           Len(last.handled[p]) =
               IF p \in DOMAIN diskFilesOf(disk, matcher) THEN 1 ELSE 0
    /\ pc.result[1].count = Cardinality(last.succeeded)
    /\ pc.result[1].size = SumOfSizes(disk, last.succeeded)
    /\ DOMAIN fi.files = last.succeeded

\* C32: the initial scan returns for every tree, the walker never staying
\* blocked on the full channel, and when it has returned every survivor was
\* handled once by one worker and the returned counters are exact.
C32_ScanTerminatesWithExactCounts ==
    /\ <>ScanReturned
    /\ [](ScanReturned => ScanOutcomeExact)

\* A scan has returned in which two workers each indexed a file, the read
\* of a third file failed, and a fourth was passed over by the walker.
C32_Witness ==
    /\ ScanReturned
    /\ pc.result[1].count = 2
    /\ pc.result[1].size = 3
    /\ DOMAIN disk.files = ScanPaths
    /\ last.handled[FileA] = <<1>>
    /\ last.handled[ScanFileB] = <<2>>
    /\ last.handled[FileDA] # <<>>
    /\ last.handled[PrunedFile] = <<>>
    /\ FileDA \notin last.succeeded


(***************************************************************************)
(* SpecLocks: the goroutines of the running server and the locks they      *)
(* take: fi.mu, ci.mu and the matcher's mu (sync.RWMutex), the debouncer's *)
(* mu (sync.Mutex) and the debouncer's output channel.  Every call is the  *)
(* sequence of lock operations it makes when it takes every branch that    *)
(* takes a lock.  pc.thread[t] holds the                                   *)
(* operations thread t still has to make and the locks it holds,           *)
(* pc.pending whether the debouncer holds events, pc.output the number of  *)
(* batches in the channel and pc.batch whether the apply step has events   *)
(* of a received batch left to handle.                                     *)
(***************************************************************************)
LockThreads == {"loop", "timer", "apply", "sync", "reindex", "query"}
LockOutputCap == 1   \* capacity of the output channel, 16 in the source

LockOp(op, lock) == [op |-> op, lock |-> lock]

Locked(lock) == <<LockOp("Lock", lock), LockOp("Unlock", lock)>>
RLocked(lock) == <<LockOp("RLock", lock), LockOp("RUnlock", lock)>>

\* A slip the callers could make: the apply step keeps fi.mu while it
\* removes from the content index, and the reindex tool keeps ci.mu while
\* it clears the file index.
LockStepsNested(call) ==
    CASE call = "handle" ->
             RLocked("m") \o <<LockOp("Lock", "d"), LockOp("UnlockAdd", "d")>>
      [] call = "flush" -> <<LockOp("Lock", "d"), LockOp("SendUnlock", "d")>>
      [] call = "remove" ->
             <<LockOp("Lock", "fi"), LockOp("Lock", "ci"),
               LockOp("Unlock", "ci"), LockOp("Unlock", "fi")>>
      [] call = "reload" -> Locked("m")
      [] call = "ingest" -> RLocked("m") \o Locked("fi") \o Locked("ci")
      [] call = "sweep" ->
             RLocked("m") \o RLocked("fi") \o Locked("fi") \o Locked("ci")
      [] call = "reindex" ->
             <<LockOp("Lock", "ci"), LockOp("Lock", "fi"),
               LockOp("Unlock", "fi"), LockOp("Unlock", "ci")>>
                 \o Locked("m") \o RLocked("m") \o Locked("fi") \o Locked("ci")
      [] call = "search" -> RLocked("ci")
      [] call = "glob" -> RLocked("fi")

\* The lock operations of a call, in the order the code makes them.
LockSteps(call) ==
    CASE call = "handle" ->
             RLocked("m") \o <<LockOp("Lock", "d"), LockOp("UnlockAdd", "d")>>
      [] call = "flush" -> <<LockOp("Lock", "d"), LockOp("SendUnlock", "d")>>
      [] call = "remove" -> Locked("fi") \o Locked("ci")
      [] call = "reload" -> Locked("m")
      [] call = "ingest" -> RLocked("m") \o Locked("fi") \o Locked("ci")
      [] call = "sweep" ->
             RLocked("m") \o RLocked("fi") \o Locked("fi") \o Locked("ci")
      [] call = "reindex" ->
             Locked("fi") \o Locked("ci") \o Locked("m")
                 \o RLocked("m") \o Locked("fi") \o Locked("ci")
      [] call = "search" -> RLocked("ci")
      [] call = "glob" -> RLocked("fi")

\* The calls a thread makes.
CallsOf(t) ==
    CASE t = "loop" -> {"handle"}
      [] t = "timer" -> {"flush"}
      [] t = "apply" -> {"remove", "reload", "ingest"}
      [] t = "sync" -> {"sweep"}
      [] t = "reindex" -> {"reindex"}
      [] t = "query" -> {"search", "glob"}

InitLocks ==
    /\ IdleIndexes
    /\ IdleDebouncer
    /\ IdleTree
    /\ pc = [thread |-> [t \in LockThreads |-> [prog |-> <<>>, holds |-> {}]],
             pending |-> FALSE, output |-> 0, batch |-> FALSE]
    /\ last = [op |-> "locks"]

NextOp(t) == Head(pc.thread[t].prog)

Holders(lock) == {t \in LockThreads : \E h \in pc.thread[t].holds : h[1] = lock}
WriteHolders(lock) == {t \in LockThreads : <<lock, "W">> \in pc.thread[t].holds}

\* The threads that have called Lock on the lock and have not got it.
WritersWaiting(lock) ==
    {t \in LockThreads : /\ pc.thread[t].prog # <<>>
                         /\ NextOp(t) = LockOp("Lock", lock)}

\* The threads that have called RLock on the lock and have not got it.
ReadersWaiting(lock) ==
    {t \in LockThreads : /\ pc.thread[t].prog # <<>>
                         /\ NextOp(t) = LockOp("RLock", lock)}

\* Whether the next operation of t can be made now.  RWMutex.RLock waits
\* while a writer holds the lock or has called Lock.
Grantable(t) ==
    LET o == NextOp(t)
    IN  CASE o.op = "Lock" -> Holders(o.lock) = {}
          [] o.op = "RLock" -> /\ WriteHolders(o.lock) = {}
                               /\ WritersWaiting(o.lock) = {}
          [] o.op = "SendUnlock" -> pc.pending => pc.output < LockOutputCap
          [] OTHER -> TRUE

\* t is blocked on a lock or on the full output channel.
LockWaiting(t) == pc.thread[t].prog # <<>> /\ ~Grantable(t)

\* A thread that is between calls makes its next call; the timer goroutine
\* runs flush only when the debouncer was given events, and the apply step
\* handles an event of the batch it has in hand.
LockBegin(t) ==
    /\ pc.thread[t].prog = <<>>
    /\ t = "timer" => pc.pending
    /\ t = "apply" => pc.batch
    /\ \E call \in CallsOf(t), more \in BOOLEAN :
           /\ t # "apply" => ~more
           /\ pc' = [pc EXCEPT !.thread[t].prog = LockSteps(call),
                               !.batch = IF t = "apply" THEN more ELSE @]
    /\ UNCHANGED <<jobs, watcher, apply, fi, ci, deb, gh, disk, matcher, last>>

\* handleWatcherEvents receives the next batch from Events().
LockReceive ==
    /\ pc.thread["apply"].prog = <<>>
    /\ ~pc.batch
    /\ pc.output > 0
    /\ pc' = [pc EXCEPT !.output = @ - 1, !.batch = TRUE]
    /\ UNCHANGED <<jobs, watcher, apply, fi, ci, deb, gh, disk, matcher, last>>

\* The threads after t has made its next operation.  Unlock of a RWMutex
\* lets in the readers that were waiting for the writer.
AfterOp(t) ==
    LET o == NextOp(t)
        mode == IF o.op = "Lock" THEN "W" ELSE "R"
        admitted == IF o.op = "Unlock" /\ o.lock # "d"
                    THEN ReadersWaiting(o.lock) ELSE {}
    IN  [u \in LockThreads |->
            IF u = t
            THEN [prog |-> Tail(pc.thread[t].prog),
                  holds |-> IF o.op \in {"Lock", "RLock"}
                            THEN pc.thread[t].holds \cup {<<o.lock, mode>>}
                            ELSE {h \in pc.thread[t].holds : h[1] # o.lock}]
            ELSE IF u \in admitted
            THEN [prog |-> Tail(pc.thread[u].prog),
                  holds |-> pc.thread[u].holds \cup {<<o.lock, "R">>}]
            ELSE pc.thread[u]]

\* Thread t makes the next operation of its call.
LockProceed(t) ==
    /\ pc.thread[t].prog # <<>>
    /\ Grantable(t)
    /\ LET o == NextOp(t)
       IN  pc' = [pc EXCEPT
                      !.thread = AfterOp(t),
                      !.pending = CASE o.op = "UnlockAdd" -> TRUE
                                    [] o.op = "SendUnlock" -> FALSE
                                    [] OTHER -> @,
                      !.output = IF o.op = "SendUnlock" /\ pc.pending
                                 THEN @ + 1 ELSE @]
    /\ UNCHANGED <<jobs, watcher, apply, fi, ci, deb, gh, disk, matcher, last>>

NextLocks ==
    \/ LockReceive
    \/ \E t \in LockThreads : LockBegin(t) \/ LockProceed(t)

SpecLocks == InitLocks /\ [][NextLocks]_vars

\* The locks t holds paired with the lock, or the channel, it goes for.
OrdersOf(t) ==
    IF pc.thread[t].prog = <<>> THEN {}
    ELSE LET o == NextOp(t)
             target == IF o.op = "SendUnlock" THEN "out" ELSE o.lock
         IN  IF o.op \in {"Lock", "RLock"} \/ (o.op = "SendUnlock" /\ pc.pending)
             THEN {<<h[1], target>> : h \in pc.thread[t].holds}
             ELSE {}

NoConflictingOrder ==
    \A t, u \in LockThreads :
        \A o \in OrdersOf(t) : o[1] # o[2] /\ <<o[2], o[1]>> \notin OrdersOf(u)

\* The threads t is waiting for: the holders of the lock it goes for, for
\* RLock the writers that hold it or wait for it, and for a send to the
\* full output channel the apply step, which receives from it.
Blockers(t) ==
    LET o == NextOp(t)
    IN  CASE o.op = "Lock" -> Holders(o.lock)
          [] o.op = "RLock" -> WriteHolders(o.lock) \cup WritersWaiting(o.lock)
          [] o.op = "SendUnlock" -> {"apply"}
          [] OTHER -> {}

\* Every chain of threads waiting for one another that starts at t ends at
\* threads that can take their next step.
RECURSIVE ChainEnds(_, _)
ChainEnds(t, seen) ==
    /\ Blockers(t) # {}
    /\ \A b \in Blockers(t) :
           /\ b \notin seen
           /\ LockWaiting(b) => ChainEnds(b, seen \cup {b})

\* C31: no two of the locks and the output channel are taken in one order
\* by one thread and in the other order by another, and whenever a thread
\* waits for a lock or for room in the output channel, the threads it
\* waits for, and those they wait for, end at threads that can go on, the
\* apply step receiving from Events() whenever it is between events: no
\* set of threads waits for one another.
C31_NoDeadlock ==
    /\ NoConflictingOrder
    /\ \A t \in LockThreads : LockWaiting(t) => ChainEnds(t, {t})

\* The watcher loop waits for the debouncer's mutex, which flush holds
\* while it waits for room in the output channel, while the apply step
\* waits for the matcher's lock, which a reader holds, and the reindex tool
\* waits for fi.mu, which the reconciler holds.
C31_Witness ==
    /\ LockWaiting("loop")
    /\ LockWaiting("timer")
    /\ <<"d", "W">> \in pc.thread["timer"].holds
    /\ LockWaiting("apply")
    /\ LockWaiting("reindex")
    /\ pc.thread["sync"].holds # {}
    /\ pc.thread["query"].holds # {}

====
